---- MODULE Spec2Model ----
(***************************************************************************)
(* A model of the Base Profiler core (mozglue/baseprofiler/core/           *)
(* platform.cpp): the two global singletons CorePS and ActivePS guarded by *)
(* the non-recursive mutex gPSMutex, the lock-free RacyFeatures word, the  *)
(* thread registry, the dead-thread retention list and the sampler thread  *)
(* with its activity generation.                                           *)
(*                                                                         *)
(* Application threads call the public profiler_* functions.  Every        *)
(* function is cut at the points where it takes gPSMutex and where it      *)
(* joins a sampler thread; what happens while the mutex is held is one     *)
(* step.  A failed release assertion (or a null dereference) aborts the    *)
(* process: the model then moves to the terminal state Aborted.            *)
(***************************************************************************)
EXTENDS Integers, Sequences, FiniteSets, TLC

(***************************************************************************)
(* Bounds of the model.                                                    *)
(***************************************************************************)
\* ActivePS objects that may be constructed in one behaviour.
MaxStarts == 2
\* Thread registrations (ThreadInfo objects) in one behaviour.
MaxRegs == 2
\* Blocks the modelled ring buffer holds before the oldest is overwritten.
RingLen == 2
\* Highest buffer index (rangeEnd) a behaviour may reach.
MaxPos == 3

(***************************************************************************)
(* Program constants.                                                      *)
(***************************************************************************)
\* uint32_t arithmetic of sNextGeneration: a uint32_t is kept as its two
\* 16-bit halves, [hi, lo], and incremented with carry.
HalfWordMod == 65536
\* Smallest capacity locked_profiler_start accepts as given.
MinCapacity == 8192
\* BASE_PROFILER_DEFAULT_ENTRIES (2^20 entries).
DefaultEntries == 1048576
\* BASE_PROFILER_DEFAULT_STARTUP_ENTRIES (2^22 entries).
DefaultStartupEntries == 4194304
\* BASE_PROFILER_DEFAULT_INTERVAL, in milliseconds.
DefaultInterval == 1

\* Application threads.  Thread 1 is the thread the embedder runs
\* profiler_init and profiler_shutdown on.
Threads == {1, 2}
InitThread == 1
NoThread == 0
NullPtr == 0

(***************************************************************************)
(* Strings are sequences of one-character strings, so that tolower, find   *)
(* and compare can be computed as std::string computes them.               *)
(***************************************************************************)
UpperChars == <<"A","B","C","D","E","F","G","H","I","J","K","L","M",
                "N","O","P","Q","R","S","T","U","V","W","X","Y","Z">>
LowerChars == <<"a","b","c","d","e","f","g","h","i","j","k","l","m",
                "n","o","p","q","r","s","t","u","v","w","x","y","z">>

ToLowerChar(c) ==
  IF \E i \in 1..Len(UpperChars) : UpperChars[i] = c
  THEN LowerChars[CHOOSE i \in 1..Len(UpperChars) : UpperChars[i] = c]
  ELSE c

ToLower(s) == [i \in 1..Len(s) |-> ToLowerChar(s[i])]

\* std::string::find(needle) != npos
StrContains(s, needle) ==
  \E i \in 0..(Len(s) - Len(needle)) : SubSeq(s, i + 1, i + Len(needle)) = needle

\* std::string::find(prefix) == 0
StrStartsWith(s, prefix) ==
  /\ Len(prefix) <= Len(s)
  /\ SubSeq(s, 1, Len(prefix)) = prefix

kMainThreadName == <<"G","e","c","k","o","M","a","i","n">>
WorkerThreadName == <<"W","o","r","k","e","r","1">>
StarFilter == <<"*">>
PidPrefix == <<"p","i","d",":">>
\* std::to_string(profiler_current_process_id())
MyPidString == <<"4","2">>

\* The name a thread registers under.
ThreadName(t) == IF t = InitThread THEN kMainThreadName ELSE WorkerThreadName

(***************************************************************************)
(* Features.  A feature word is modelled as the set of its bits.           *)
(***************************************************************************)
AllFeatures == {"Java", "JS", "Leaf", "MainThreadIO", "Privacy", "Screenshots",
                "SeqStyle", "StackWalk", "TaskTracer", "Threads",
                "TrackOptimizations", "JSTracer", "NoStackSampling"}

AvailableFeatures ==
  AllFeatures \ {"Java", "JS", "Screenshots", "TaskTracer",
                 "TrackOptimizations", "JSTracer"}

DefaultFeatures == {"Java", "JS", "Leaf", "StackWalk", "Threads"}

StartupExtraDefaultFeatures == {"MainThreadIO"}

\* Maybe<double>
Nothing == [some |-> FALSE, v |-> 0]
Some(x) == [some |-> TRUE, v |-> x]

\* A double is an integer or NaN, the value that compares false with every
\* value, itself included, under <=, > and ==.
NaN == -1000
DoubleLessEq(x, y) == x # NaN /\ y # NaN /\ x <= y
DoubleGreater(x, y) == x # NaN /\ y # NaN /\ x > y
DoubleNotEqual(x, y) == x = NaN \/ y = NaN \/ x # y
\* Maybe<double>::operator!=
MaybeDoubleNotEqual(a, b) ==
  IF a.some /\ b.some THEN DoubleNotEqual(a.v, b.v) ELSE a.some # b.some

(***************************************************************************)
(* The parameter tuples the application passes to profiler_start and       *)
(* profiler_ensure_started.                                                *)
(***************************************************************************)
\* Every value in range, every feature available, no filter.
ParamsPlain ==
  [capacity |-> 8192, interval |-> 1, features |-> {"Leaf", "Threads"},
   filters |-> <<>>, duration |-> Nothing]
\* A thread filter without the Threads feature, and an unavailable feature.
ParamsFiltered ==
  [capacity |-> 8192, interval |-> 1, features |-> {"JS", "Leaf"},
   filters |-> << <<"w","o","r","k","e","r">> >>, duration |-> Nothing]
StartParams == {ParamsPlain, ParamsFiltered}

\* What profiler_init passes to locked_profiler_start when
\* MOZ_BASE_PROFILER_STARTUP is set (no other MOZ_BASE_PROFILER_STARTUP_*
\* variable set).
StartupParams ==
  [capacity |-> DefaultStartupEntries, interval |-> DefaultInterval,
   features |-> (DefaultFeatures \cap AvailableFeatures)
                  \cup (StartupExtraDefaultFeatures \cap AvailableFeatures),
   filters |-> << kMainThreadName >>, duration |-> Nothing]

(***************************************************************************)
(* State.                                                                  *)
(*                                                                         *)
(* ps holds the process-wide profiler state: CorePS and ActivePS (guarded  *)
(* by gPSMutex), RacyFeatures::sActiveAndFeatures, the thread-local        *)
(* TLSRegisteredThread pointers, the core ring buffer and the sampler      *)
(* threads.  The fields keep the names of the members they model.          *)
(***************************************************************************)
VARIABLES
  ps,         \* the profiler's global state (see InitPS)
  lockOwner,  \* owner of gPSMutex: NoThread, t for a thread, -s for sampler s
  pc,         \* where each application thread is in its current call
  args,       \* the parameters of the thread's profiler_start / ensure_started
  hnd,        \* the local SamplerThread* of the thread's current call
  aborted,    \* "no", or the assertion that terminated the process
  cs,         \* the sampler's position inside one thread's sample, the
              \* suspended thread and the core buffer's mutex (see NoSample)
  rf          \* the devtools client's RootFront (see NewRootFront)

vars == <<ps, lockOwner, pc, args, hnd, aborted, cs, rf>>

(***************************************************************************)
(* RootFront (devtools/shared/fronts/root.js).  JavaScript runs each piece *)
(* of a function up to its next await without interruption, so getFront is *)
(* two steps: up to `await this.rootForm`, and from there to its return.   *)
(***************************************************************************)
\* Type names of global actors, and the getFront calls of one run.
TypeNames == {"preferenceActor", "deviceActor"}
MaxGetFrontCalls == 4

\* What Map.get returns for a missing key.
NoFront == 0

\* The RootFront after its constructor.
NewRootFront ==
  [fronts |-> [typeName \in TypeNames |-> NoFront],  \* this.fronts
   rootForm |-> "getter",   \* this.rootForm: the getter, or the promise of
                            \* getRoot(), "pending" or "resolved"
   created |-> <<>>,        \* history: type name of every Front created;
                            \* the k-th is Front k
   calls |-> <<>>]          \* history: every getFront call, where it is
                            \* ("await", "returned") and what it resolved to

\* The rootForm getter replaces itself by the promise of getRoot().
RootFront_rootForm(r) ==
  IF r.rootForm = "getter" THEN [r EXCEPT !.rootForm = "pending"] ELSE r

\* getFront(typeName), up to its return of the cached front or to its await.
RootFront_getFront_call(typeName) ==
  /\ Len(rf.calls) < MaxGetFrontCalls
  /\ LET front == rf.fronts[typeName]
     IN  rf' = IF front # NoFront
               THEN [rf EXCEPT !.calls =
                       Append(@, [typeName |-> typeName, at |-> "returned",
                                  front |-> front])]
               ELSE [RootFront_rootForm(rf) EXCEPT !.calls =
                       Append(@, [typeName |-> typeName, at |-> "await",
                                  front |-> NoFront])]
  /\ UNCHANGED <<ps, lockOwner, pc, args, hnd, aborted, cs>>

\* The reply to getRoot() arrives: the promise resolves.
RootFront_getRoot_reply ==
  /\ rf.rootForm = "pending"
  /\ rf' = [rf EXCEPT !.rootForm = "resolved"]
  /\ UNCHANGED <<ps, lockOwner, pc, args, hnd, aborted, cs>>

\* `front = getFront(this._client, typeName, rootForm)`: protocol.js creates
\* a Front.
FrontAfterAwait(r, typeName) == Len(r.created) + 1

\* getFront after its await, for the call that has waited longest: create the
\* front, store it in the cache, return it.
RootFront_getFront_resume(c) ==
  /\ c \in 1..Len(rf.calls)
  /\ rf.calls[c].at = "await"
  /\ \A b \in 1..(c - 1) : rf.calls[b].at # "await"
  /\ rf.rootForm = "resolved"
  /\ LET typeName == rf.calls[c].typeName
         front == FrontAfterAwait(rf, typeName)
     IN  rf' = [rf EXCEPT
                  !.created = IF front > Len(@) THEN Append(@, typeName) ELSE @,
                  !.fronts[typeName] = front,
                  !.calls[c] = [typeName |-> typeName, at |-> "returned",
                                front |-> front]]
  /\ UNCHANGED <<ps, lockOwner, pc, args, hnd, aborted, cs>>

\* The locals of MergeStacks between two iterations of its loop, its two
\* inputs and what it has passed to the collector so far.
MergeStart(frames, mSPs) ==
  [frames |-> frames,                    \* profilingStack.frames
   mSPs |-> mSPs,                        \* aNativeStack.mSPs, innermost first
   profilingStackIndex |-> 0,
   nativeIndex |-> Len(mSPs) - 1,
   lastLabelFrameStackAddr |-> NullPtr,
   collected |-> <<>>,                   \* the calls made on aCollector
   iterations |-> 0]                     \* history: loop iterations begun
NoMerge == MergeStart(<<>>, <<>>)

\* No sample in progress: nobody is suspended, the core buffer's mutex is
\* free, the sampler's local buffer is empty and no stack is being merged.
NoSample ==
  [step |-> "idle", i |-> 0, suspended |-> NoThread, mutex |-> NoThread,
   scratch |-> <<>>, markers |-> 0, merge |-> NoMerge,
   suspensions |-> {},
   bytes |-> 0,          \* localBlocksRingBuffer: mRangeEnd - previous mRangeEnd
   cleared |-> FALSE,    \* localBlocksRingBuffer: mClearedBlockCount advanced
   tooBig |-> Nothing]   \* history: position of the last sample logged too big

NoArgs ==
  [capacity |-> 0, interval |-> 0, features |-> {}, filters |-> <<>>,
   duration |-> Nothing]

\* The value of ActivePS's members while ActivePS::sInstance is null.
NoActivePS ==
  [mGeneration |-> [hi |-> 0, lo |-> 0], mCapacity |-> 0, mDuration |-> Nothing,
   mInterval |-> 0,
   mFeatures |-> {}, mFilters |-> <<>>, mSamplerThread |-> NullPtr,
   mIsPaused |-> FALSE, mLiveProfiledThreads |-> <<>>,
   mDeadProfiledThreads |-> <<>>, mDeadProfiledPages |-> <<>>,
   mExitProfiles |-> <<>>,
   requested |-> NoArgs]

\* CorePS::mCoreBlocksRingBuffer while no ActivePS owns a ProfileBuffer:
\* empty, and rejecting writes.
ClosedBuffer(pos) ==
  [open |-> FALSE, rangeStart |-> pos, rangeEnd |-> pos, entries |-> <<>>]

InitPS(firstGeneration) ==
  [coreExists |-> FALSE,            \* CorePS::sInstance != nullptr
   mMainThreadId |-> NoThread,      \* CorePS::mMainThreadId
   mRegisteredThreads |-> <<>>,     \* CorePS::mRegisteredThreads
   mRegisteredPages |-> <<>>,       \* CorePS::mRegisteredPages
   tls |-> [t \in Threads |-> NullPtr],  \* TLSRegisteredThread::sRegisteredThread
   activeExists |-> FALSE,          \* ActivePS::sInstance != nullptr
   active |-> NoActivePS,           \* *ActivePS::sInstance
   activeObjects |-> 0,             \* ActivePS objects constructed and not deleted
   sNextGeneration |-> firstGeneration,  \* ActivePS::sNextGeneration
   sActiveAndFeatures |-> {},       \* RacyFeatures::sActiveAndFeatures
   buffer |-> ClosedBuffer(0),      \* CorePS::mCoreBlocksRingBuffer
   samplers |-> <<>>,               \* every SamplerThread constructed so far
   registrations |-> 0,             \* RegisteredThread objects constructed so far
   generations |-> <<>>,            \* history: generation of every ActivePS
   failedAssertions |-> {},         \* history: debug assertions that failed
   discarded |-> 0,                 \* history: dead ProfiledThreadData destroyed
   unwinds |-> 0,                   \* history: suspend-and-unwind samples taken
   pageRegistrations |-> 0,         \* history: PageInformation objects constructed
   returned |-> [t \in Threads |-> "none"], \* history: each thread's last result
   movedProfiles |-> <<>>]          \* history: last vector of profiler_move_exit_profiles

(***************************************************************************)
(* Ring buffer (BlocksRingBuffer / ProfileBuffer).                         *)
(***************************************************************************)
\* A buffer that grows without overwriting.
BufferAppend_NeverOverwriting(b, e) ==
  IF ~b.open THEN b
  ELSE [b EXCEPT !.entries = Append(@, e), !.rangeEnd = @ + 1]

\* One block appended; the oldest block is overwritten when the ring is full.
BufferAppend(b, e) ==
  IF ~b.open THEN b
  ELSE LET es == Append(b.entries, e)
       IN  IF Len(es) > RingLen
           THEN [b EXCEPT !.entries = Tail(es), !.rangeStart = @ + 1,
                          !.rangeEnd = @ + 1]
           ELSE [b EXCEPT !.entries = es, !.rangeEnd = @ + 1]

\* ProfileBuffer's constructor gives the core buffer its storage.
BufferOpen(b) ==
  [open |-> TRUE, rangeStart |-> b.rangeEnd, rangeEnd |-> b.rangeEnd,
   entries |-> <<>>]

\* ProfileBuffer's destructor takes the storage away.
BufferClose(b) == ClosedBuffer(b.rangeEnd)

\* A periodic sample of thread tid (RegisteredThread rid), written by the
\* sampler created for generation by while the ActivePS of generation gen
\* owns the buffer; its payload is the thread's stack, stackSize label frames.
SampleEntry(tid, rid, gen, by, stackSize) ==
  [kind |-> "Sample", tid |-> tid, rid |-> rid, gen |-> gen, by |-> by,
   stackSize |-> stackSize]

(***************************************************************************)
(* Sequence helpers.                                                       *)
(***************************************************************************)
Range(s) == {s[i] : i \in 1..Len(s)}

\* Vector::erase(&v[i])
EraseAt(s, i) == SubSeq(s, 1, i - 1) \o SubSeq(s, i + 1, Len(s))

(***************************************************************************)
(* ActivePS.                                                               *)
(***************************************************************************)
\* An AdjustFeatures that keeps the features the platform does not have.
AdjustFeatures_KeepingUnavailable(aFeatures, aFilterCount) ==
  IF aFilterCount > 0 THEN aFeatures \cup {"Threads"} ELSE aFeatures

\* An AdjustFeatures that does not add Threads for a non-empty filter list.
AdjustFeatures_NoThreads(aFeatures, aFilterCount) ==
  aFeatures \cap AvailableFeatures

AdjustFeatures(aFeatures, aFilterCount) ==
  LET available == aFeatures \cap AvailableFeatures
  IN  IF aFilterCount > 0 THEN available \cup {"Threads"} ELSE available

\* A ThreadSelected that compares the lowercased filter with the thread name
\* as registered.
ThreadSelected_CaseSensitive(mFilters, aThreadName) ==
  IF mFilters = <<>> THEN TRUE
  ELSE \E i \in 1..Len(mFilters) :
         \/ mFilters[i] = StarFilter
         \/ StrContains(aThreadName, ToLower(mFilters[i]))
         \/ /\ StrStartsWith(ToLower(mFilters[i]), PidPrefix)
            /\ SubSeq(ToLower(mFilters[i]), 5, Len(mFilters[i])) = MyPidString

ThreadSelected(mFilters, aThreadName) ==
  IF mFilters = <<>> THEN TRUE
  ELSE LET name == ToLower(aThreadName)
       IN  \E i \in 1..Len(mFilters) :
             \/ mFilters[i] = StarFilter
             \/ StrContains(name, ToLower(mFilters[i]))
             \/ /\ StrStartsWith(ToLower(mFilters[i]), PidPrefix)
                /\ SubSeq(ToLower(mFilters[i]), 5, Len(mFilters[i])) = MyPidString

ShouldProfileThread(a, info) ==
  /\ (info.isMainThread \/ "Threads" \in a.mFeatures)
  /\ ThreadSelected(a.mFilters, info.name)

\* A constructor that reads sNextGeneration without incrementing it.
NewGeneration_NoIncrement(sNextGeneration) ==
  [mGeneration |-> sNextGeneration, sNextGeneration |-> sNextGeneration]

\* mGeneration(sNextGeneration++): the generation the new ActivePS gets and
\* the value the static counter has afterwards.
U32(hi, lo) == [hi |-> hi, lo |-> lo]
U32Inc(x) ==
  IF x.lo + 1 < HalfWordMod THEN U32(x.hi, x.lo + 1)
  ELSE U32((x.hi + 1) % HalfWordMod, 0)
U32Less(x, y) == x.hi < y.hi \/ (x.hi = y.hi /\ x.lo < y.lo)

NewGeneration(sNextGeneration) ==
  [mGeneration |-> sNextGeneration, sNextGeneration |-> U32Inc(sNextGeneration)]

ActivePS_Equals(a, aCapacity, aDuration, aInterval, aFeatures, aFilters) ==
  /\ a.mCapacity = aCapacity
  /\ ~MaybeDoubleNotEqual(a.mDuration, aDuration)
  /\ ~DoubleNotEqual(a.mInterval, aInterval)
  /\ a.mFeatures = aFeatures
  /\ Len(a.mFilters) = Len(aFilters)
  /\ \A i \in 1..Len(a.mFilters) : a.mFilters[i] = aFilters[i]

NewProfiledThreadData(rt) ==
  [tid |-> rt.tid, rid |-> rt.rid, mLastSample |-> Nothing,
   mBufferPositionWhenUnregistered |-> Nothing]

\* ProfiledThreadData::NotifyUnregistered
NotifyUnregistered(ptd, aBufferPosition) ==
  [ptd EXCEPT !.mBufferPositionWhenUnregistered = Some(aBufferPosition)]

\* An eraseIf predicate that also drops the entries stamped with rangeStart.
IsExpired_Inclusive(ptd, bufferRangeStart) ==
  ptd.mBufferPositionWhenUnregistered.v <= bufferRangeStart

\* The predicate of DiscardExpiredDeadProfiledThreads' eraseIf.
IsExpired(ptd, bufferRangeStart) ==
  ptd.mBufferPositionWhenUnregistered.v < bufferRangeStart

DiscardExpiredDeadProfiledThreads(dead, bufferRangeStart) ==
  SelectSeq(dead, LAMBDA d : ~IsExpired(d, bufferRangeStart))

\* An UnregisterThread that destroys the ProfiledThreadData with the thread.
ActivePS_UnregisterThread_Dropping(a, b, rid) ==
  [a EXCEPT
    !.mDeadProfiledThreads =
       DiscardExpiredDeadProfiledThreads(@, b.rangeStart),
    !.mLiveProfiledThreads =
       SelectSeq(@, LAMBDA l : l.mRegisteredThread # rid)]

\* ActivePS::UnregisterThread on the members of a, with the buffer b.
\* An ActivePS::UnregisterThread that leaves the thread's entry in the live
\* list.
ActivePS_UnregisterThread_LeavingLive(a, b, rid) ==
  [a EXCEPT !.mDeadProfiledThreads =
              DiscardExpiredDeadProfiledThreads(@, b.rangeStart)]

ActivePS_UnregisterThread(a, b, rid) ==
  LET dead == DiscardExpiredDeadProfiledThreads(a.mDeadProfiledThreads,
                                                b.rangeStart)
      live == a.mLiveProfiledThreads
      hits == {i \in 1..Len(live) : live[i].mRegisteredThread = rid}
  IN  IF hits = {}
      THEN [a EXCEPT !.mDeadProfiledThreads = dead]
      ELSE LET i == CHOOSE k \in hits : \A j \in hits : k <= j
           IN  [a EXCEPT
                 !.mDeadProfiledThreads =
                    Append(dead, NotifyUnregistered(live[i].mProfiledThreadData,
                                                    b.rangeEnd)),
                 !.mLiveProfiledThreads = EraseAt(live, i)]

\* ActivePS::Create: MOZ_ASSERT(!sInstance); sInstance = new ActivePS(...).
\* The constructor takes the next generation, adjusts the features, gives the
\* core buffer its storage and creates the sampler thread.
ActivePS_Create(s, aCapacity, aInterval, aFeatures, aFilters, aDuration, req) ==
  LET g == NewGeneration(s.sNextGeneration)
      sampler == [mActivityGeneration |-> g.mGeneration, state |-> "created",
                  noStackSampling |-> FALSE]
  IN  [s EXCEPT
        !.failedAssertions =
           IF s.activeExists THEN @ \cup {"ActivePS::Create: !sInstance"} ELSE @,
        !.activeExists = TRUE,
        !.activeObjects = @ + 1,
        !.sNextGeneration = g.sNextGeneration,
        !.generations = Append(@, [gen |-> g.mGeneration, ord |-> Len(@)]),
        !.samplers = Append(@, sampler),
        !.buffer = BufferOpen(@),
        !.active =
           [mGeneration |-> g.mGeneration, mCapacity |-> aCapacity,
            mDuration |-> aDuration, mInterval |-> aInterval,
            mFeatures |-> AdjustFeatures(aFeatures, Len(aFilters)),
            mFilters |-> aFilters, mSamplerThread |-> Len(s.samplers) + 1,
            mIsPaused |-> FALSE, mLiveProfiledThreads |-> <<>>,
            mDeadProfiledThreads |-> <<>>, mDeadProfiledPages |-> <<>>,
            mExitProfiles |-> <<>>,
            requested |-> req]]

\* An ActivePS::Destroy that clears sInstance without deleting the object.
DeleteActivePS_Leaking(s) == [s EXCEPT !.buffer = BufferClose(@)]

\* `delete sInstance` of ActivePS::Destroy: the number of ActivePS objects
\* that remain, and what is left of the core buffer.
DeleteActivePS(s) ==
  [s EXCEPT !.activeObjects = @ - 1, !.buffer = BufferClose(@)]

\* ActivePS::Destroy (the caller keeps sInstance->mSamplerThread).
\* An ActivePS::Destroy that leaves the core buffer its storage.
ActivePS_Destroy_KeepingBuffer(s) ==
  [s EXCEPT !.activeObjects = @ - 1, !.activeExists = FALSE,
            !.active = NoActivePS]

ActivePS_Destroy(s) ==
  [DeleteActivePS(s) EXCEPT !.activeExists = FALSE, !.active = NoActivePS]

RacyFeatures_SetActive(aFeatures) == {"Active"} \cup aFeatures

RacyFeatures_SetInactive == {}

RacyFeatures_IsActive(word) == "Active" \in word

RacyFeatures_IsActiveWithFeature(word, aFeature) ==
  "Active" \in word /\ aFeature \in word

\* A FindCurrentThreadRegisteredThread that finds nothing.
FindCurrentThreadRegisteredThread_NotFound(s, t) == NullPtr

\* FindCurrentThreadRegisteredThread: the RegisteredThread of thread t, or
\* nullptr.
FindCurrentThreadRegisteredThread(s, t) ==
  LET hits == {i \in 1..Len(s.mRegisteredThreads) :
                 s.mRegisteredThreads[i].tid = t}
  IN  IF hits = {} THEN NullPtr
      ELSE s.mRegisteredThreads[CHOOSE k \in hits : \A j \in hits : k <= j].rid

\* A locked_register_thread that profiles every thread that registers while
\* ActivePS exists.
locked_register_thread_Unfiltered(s, t) ==
  LET rid == s.registrations + 1
      info == [tid |-> t, rid |-> rid, name |-> ThreadName(t),
               isMainThread |-> (t = s.mMainThreadId),
               isBeingProfiled |-> FALSE,
               mSleep |-> "AWAKE",     \* RacyRegisteredThread::mSleep
               stackSize |-> 0]        \* ProfilingStack::stackPointer
      profile == s.activeExists
  IN  [s EXCEPT
        !.registrations = rid,
        !.tls[t] = rid,
        !.active.mLiveProfiledThreads =
           IF profile
           THEN Append(@, [mRegisteredThread |-> rid,
                           mProfiledThreadData |-> NewProfiledThreadData(info)])
           ELSE @,
        !.mRegisteredThreads =
           Append(@, [info EXCEPT !.isBeingProfiled = profile])]

\* locked_register_thread, past its two release assertions.
locked_register_thread(s, t) ==
  LET rid == s.registrations + 1
      info == [tid |-> t, rid |-> rid, name |-> ThreadName(t),
               isMainThread |-> (t = s.mMainThreadId),
               isBeingProfiled |-> FALSE,
               mSleep |-> "AWAKE",     \* RacyRegisteredThread::mSleep
               stackSize |-> 0]        \* ProfilingStack::stackPointer
      profile == s.activeExists /\ ShouldProfileThread(s.active, info)
  IN  [s EXCEPT
        !.registrations = rid,
        !.tls[t] = rid,
        !.active.mLiveProfiledThreads =
           IF profile
           THEN Append(@, [mRegisteredThread |-> rid,
                           mProfiledThreadData |-> NewProfiledThreadData(info)])
           ELSE @,
        !.mRegisteredThreads =
           Append(@, [info EXCEPT !.isBeingProfiled = profile])]

\* RacyRegisteredThread::ReinitializeOnResume: a thread that was sampled in
\* its sleep episode under an earlier ActivePS has no sample to copy under
\* the new one, and is sampled afresh.
ReinitializeOnResume(mSleep) ==
  IF mSleep = "SLEEPING_OBSERVED" THEN "SLEEPING_NOT_OBSERVED" ELSE mSleep

\* The loop of locked_profiler_start over CorePS::RegisteredThreads.
RECURSIVE StartProfilingThreads(_, _)
StartProfilingThreads(s, i) ==
  IF i > Len(s.mRegisteredThreads) THEN s
  ELSE LET rt == s.mRegisteredThreads[i]
       IN  IF ShouldProfileThread(s.active, rt)
           THEN StartProfilingThreads(
                  [s EXCEPT
                    !.mRegisteredThreads[i].isBeingProfiled = TRUE,
                    !.mRegisteredThreads[i].mSleep = ReinitializeOnResume(@),
                    !.active.mLiveProfiledThreads =
                       Append(@, [mRegisteredThread |-> rt.rid,
                                  mProfiledThreadData |->
                                     NewProfiledThreadData(rt)])],
                  i + 1)
           ELSE StartProfilingThreads(s, i + 1)

\* The values locked_profiler_start stores for the values it is given.
ClampCapacity(aCapacity) ==
  IF aCapacity >= MinCapacity THEN aCapacity ELSE DefaultEntries
ClampDuration(aDuration) ==
  IF aDuration.some /\ DoubleLessEq(aDuration.v, 0) THEN Nothing ELSE aDuration
ClampInterval(aInterval) ==
  IF DoubleGreater(aInterval, 0) THEN aInterval ELSE DefaultInterval

\* locked_profiler_start, past its release assertion.
\* locked_profiler_start up to `At the very end, set up RacyFeatures`.
locked_profiler_start_unpublished(s, p) ==
  LET created == ActivePS_Create(s, ClampCapacity(p.capacity),
                                 ClampInterval(p.interval), p.features,
                                 p.filters, ClampDuration(p.duration), p)
  IN  StartProfilingThreads(created, 1)

locked_profiler_start(s, p) ==
  LET profiling == locked_profiler_start_unpublished(s, p)
  IN  [profiling EXCEPT
        !.sActiveAndFeatures = RacyFeatures_SetActive(profiling.active.mFeatures)]

\* The release assertion of locked_profiler_start.
CanStart(s) == s.coreExists /\ ~s.activeExists

\* A locked_profiler_stop without its loop over the live profiled threads.
locked_profiler_stop_KeepingFlags(s) ==
  ActivePS_Destroy([s EXCEPT !.sActiveAndFeatures = RacyFeatures_SetInactive])

\* locked_profiler_stop, past its release assertion.  The caller reads the
\* sampler thread to delete from s.active.mSamplerThread before.
locked_profiler_stop(s) ==
  LET liveRids == {s.active.mLiveProfiledThreads[i].mRegisteredThread :
                     i \in 1..Len(s.active.mLiveProfiledThreads)}
      cleared ==
        [s EXCEPT
          !.sActiveAndFeatures = RacyFeatures_SetInactive,
          !.mRegisteredThreads =
             [i \in 1..Len(@) |->
                IF @[i].rid \in liveRids
                THEN [@[i] EXCEPT !.isBeingProfiled = FALSE] ELSE @[i]]]
  IN  ActivePS_Destroy(cleared)

\* CorePS::Destroy
CorePS_Destroy(s) ==
  [s EXCEPT !.coreExists = FALSE, !.mMainThreadId = NoThread,
            !.mRegisteredThreads = <<>>, !.mRegisteredPages = <<>>]

\* CorePS::Create on thread t
CorePS_Create(s, t) ==
  [s EXCEPT !.coreExists = TRUE, !.mMainThreadId = t,
            !.mRegisteredThreads = <<>>, !.mRegisteredPages = <<>>]

\* CorePS::RemoveRegisteredThread
CorePS_RemoveRegisteredThread(s, rid) ==
  [s EXCEPT !.mRegisteredThreads = SelectSeq(@, LAMBDA r : r.rid # rid)]

(***************************************************************************)
(* Steps.  A public function is a call step (what it does before it takes  *)
(* gPSMutex), a lock step (PSAutoLock's constructor), a body step (all it  *)
(* does while it holds the lock, up to PSAutoLock's destructor) and, where *)
(* it deletes a SamplerThread afterwards, a join step.                     *)
(***************************************************************************)
Running == aborted = "no"

\* A failed release assertion, or a crash, ends the process.
Abort(why) ==
  /\ aborted' = why
  /\ ps' = InitPS([hi |-> 0, lo |-> 0])
  /\ lockOwner' = NoThread
  /\ pc' = [t \in Threads |-> "dead"]
  /\ args' = [t \in Threads |-> NoArgs]
  /\ hnd' = [t \in Threads |-> NullPtr]
  /\ cs' = NoSample
  /\ rf' = rf

LockPcs ==
  {"init_lock", "shutdown_lock", "start_lock", "ensure_lock", "stop_lock",
   "register_lock", "unregister_lock", "pause_lock", "resume_lock",
   "stream_lock", "register_page_lock", "suspend_lock",
   "unregister_page_lock", "clear_pages_lock", "exit_profile_lock",
   "move_exit_lock"}

BodyOf(label) ==
  CASE label = "init_lock" -> "init_body"
    [] label = "shutdown_lock" -> "shutdown_body"
    [] label = "start_lock" -> "start_body"
    [] label = "ensure_lock" -> "ensure_body"
    [] label = "stop_lock" -> "stop_body"
    [] label = "register_lock" -> "register_body"
    [] label = "unregister_lock" -> "unregister_body"
    [] label = "pause_lock" -> "pause_body"
    [] label = "resume_lock" -> "resume_body"
    [] label = "stream_lock" -> "stream_body"
    [] label = "register_page_lock" -> "register_page_body"
    [] label = "suspend_lock" -> "suspend_body"
    [] label = "unregister_page_lock" -> "unregister_page_body"
    [] label = "clear_pages_lock" -> "clear_pages_body"
    [] label = "exit_profile_lock" -> "exit_profile_body"
    [] label = "move_exit_lock" -> "move_exit_body"

\* Calls that will create an ActivePS, or register a thread, and have not
\* reached their body yet: they count against MaxStarts and MaxRegs.
PendingStarts ==
  Cardinality({t \in Threads :
     pc[t] \in {"start_lock", "start_body", "ensure_lock", "ensure_body"}})
PendingRegs ==
  Cardinality({t \in Threads :
     pc[t] \in {"init_lock", "init_body", "register_lock", "register_body"}})
MayStart == Len(ps.samplers) + PendingStarts < MaxStarts
MayRegisterUpto(max) == ps.registrations + PendingRegs < max
MayRegister == MayRegisterUpto(MaxRegs)

\* PSAutoLock::PSAutoLock on a free gPSMutex.
Lock(t) ==
  /\ Running
  /\ pc[t] \in LockPcs
  /\ lockOwner = NoThread
  /\ lockOwner' = t
  /\ pc' = [pc EXCEPT ![t] = BodyOf(pc[t])]
  /\ UNCHANGED <<ps, args, hnd, aborted, cs, rf>>

\* PSAutoLock::PSAutoLock on the gPSMutex the thread itself holds.  The mutex
\* is not recursive: the thread blocks for ever with the lock held, or the
\* error-checking mutex of a debug build ends the process.
RecursiveLock(t) ==
  /\ Running
  /\ pc[t] \in LockPcs
  /\ lockOwner = t
  /\ \/ /\ pc' = [pc EXCEPT ![t] = "deadlocked"]
        /\ UNCHANGED <<ps, lockOwner, args, hnd, aborted, cs, rf>>
     \/ Abort("PSAutoLock: gPSMutex locked twice by one thread")

\* PSAutoLock::~PSAutoLock at the end of a body, then the function's tail.
Return(t, s, sampler, joinLabel) ==
  /\ ps' = s
  /\ lockOwner' = NoThread
  /\ hnd' = [hnd EXCEPT ![t] = sampler]
  /\ pc' = [pc EXCEPT ![t] = IF sampler = NullPtr THEN "idle" ELSE joinLabel]
  /\ args' = [args EXCEPT ![t] = NoArgs]
  /\ UNCHANGED <<aborted, cs, rf>>

\* profiler_init, up to its PSAutoLock.  Only the main thread calls it.
profiler_init_call_upto(t, max) ==
  /\ Running
  /\ pc[t] = "idle"
  /\ t = InitThread
  /\ MayRegisterUpto(max)
  /\ IF ps.coreExists
     THEN Abort("profiler_init: MOZ_RELEASE_ASSERT(!CorePS::Exists())")
     ELSE /\ pc' = [pc EXCEPT ![t] = "init_lock"]
          /\ UNCHANGED <<ps, lockOwner, args, hnd, aborted, cs, rf>>

profiler_init_call(t) == profiler_init_call_upto(t, MaxRegs)

\* profiler_init under the lock: CorePS::Create, locked_register_thread of
\* the main thread and, with MOZ_BASE_PROFILER_STARTUP set, locked_profiler_start.
profiler_init_body(t, startup) ==
  /\ Running
  /\ pc[t] = "init_body"
  /\ lockOwner = t
  /\ startup => Len(ps.samplers) + PendingStarts < MaxStarts
  /\ LET created == CorePS_Create(ps, t)
         registered == locked_register_thread(created, t)
     IN  Return(t, IF startup
                   THEN locked_profiler_start(registered, StartupParams)
                   ELSE registered,
                NullPtr, "idle")

\* profiler_shutdown, up to its PSAutoLock.
profiler_shutdown_call(t) ==
  /\ Running
  /\ pc[t] = "idle"
  /\ IF ~ps.coreExists
     THEN Abort("profiler_shutdown: CorePS::IsMainThread() without CorePS")
     ELSE IF t # ps.mMainThreadId
     THEN Abort("profiler_shutdown: MOZ_RELEASE_ASSERT(CorePS::IsMainThread())")
     ELSE /\ pc' = [pc EXCEPT ![t] = "shutdown_lock"]
          /\ UNCHANGED <<ps, lockOwner, args, hnd, aborted, cs, rf>>

\* profiler_shutdown under the lock.
profiler_shutdown_body(t) ==
  /\ Running
  /\ pc[t] = "shutdown_body"
  /\ lockOwner = t
  /\ LET sampler == IF ps.activeExists THEN ps.active.mSamplerThread ELSE NullPtr
         stopped == IF ps.activeExists THEN locked_profiler_stop(ps) ELSE ps
         destroyed == CorePS_Destroy(stopped)
     IN  Return(t, [destroyed EXCEPT !.tls[t] = NullPtr], sampler,
                "shutdown_join")

\* profiler_start and profiler_ensure_started take the lock first.
profiler_start_call(t, p) ==
  /\ Running
  /\ pc[t] = "idle"
  /\ MayStart
  /\ pc' = [pc EXCEPT ![t] = "start_lock"]
  /\ args' = [args EXCEPT ![t] = p]
  /\ UNCHANGED <<ps, lockOwner, hnd, aborted, cs, rf>>

\* `if (!CorePS::Exists()) profiler_init(nullptr);` under the caller's lock:
\* profiler_init passes its assertion and reaches its own PSAutoLock.
NestedInit(t) ==
  /\ pc' = [pc EXCEPT ![t] = "init_lock"]
  /\ UNCHANGED <<ps, lockOwner, args, hnd, aborted, cs, rf>>

\* profiler_start under the lock.
profiler_start_body(t) ==
  /\ Running
  /\ pc[t] = "start_body"
  /\ lockOwner = t
  /\ IF ~ps.coreExists THEN NestedInit(t)
     ELSE LET sampler == IF ps.activeExists THEN ps.active.mSamplerThread
                         ELSE NullPtr
              stopped == IF ps.activeExists THEN locked_profiler_stop(ps) ELSE ps
          IN  IF ~CanStart(stopped)
              THEN Abort("locked_profiler_start: MOZ_RELEASE_ASSERT(CorePS::Exists() && !ActivePS::Exists(aLock))")
              ELSE Return(t, locked_profiler_start(stopped, args[t]), sampler,
                          "start_join")

profiler_ensure_started_call(t, p) ==
  /\ Running
  /\ pc[t] = "idle"
  /\ MayStart
  /\ pc' = [pc EXCEPT ![t] = "ensure_lock"]
  /\ args' = [args EXCEPT ![t] = p]
  /\ UNCHANGED <<ps, lockOwner, hnd, aborted, cs, rf>>

\* profiler_ensure_started under the lock.
profiler_ensure_started_body(t) ==
  /\ Running
  /\ pc[t] = "ensure_body"
  /\ lockOwner = t
  /\ IF ~ps.coreExists THEN NestedInit(t)
     ELSE LET p == args[t]
              equal == ps.activeExists /\
                       ActivePS_Equals(ps.active, p.capacity, p.duration,
                                       p.interval, p.features, p.filters)
              sampler == IF ps.activeExists /\ ~equal
                         THEN ps.active.mSamplerThread ELSE NullPtr
              stopped == IF ps.activeExists /\ ~equal
                         THEN locked_profiler_stop(ps) ELSE ps
          IN  IF equal THEN Return(t, ps, NullPtr, "ensure_join")
              ELSE IF ~CanStart(stopped)
              THEN Abort("locked_profiler_start: MOZ_RELEASE_ASSERT(CorePS::Exists() && !ActivePS::Exists(aLock))")
              ELSE Return(t, locked_profiler_start(stopped, p), sampler,
                          "ensure_join")

\* profiler_stop, up to its PSAutoLock.
profiler_stop_call(t) ==
  /\ Running
  /\ pc[t] = "idle"
  /\ IF ~ps.coreExists
     THEN Abort("profiler_stop: MOZ_RELEASE_ASSERT(CorePS::Exists())")
     ELSE /\ pc' = [pc EXCEPT ![t] = "stop_lock"]
          /\ UNCHANGED <<ps, lockOwner, args, hnd, aborted, cs, rf>>

\* profiler_stop under the lock.
profiler_stop_body(t) ==
  /\ Running
  /\ pc[t] = "stop_body"
  /\ lockOwner = t
  /\ IF ~ps.activeExists THEN Return(t, ps, NullPtr, "stop_join")
     ELSE IF ~ps.coreExists
     THEN Abort("locked_profiler_stop: MOZ_RELEASE_ASSERT(CorePS::Exists() && ActivePS::Exists(aLock))")
     ELSE Return(t, locked_profiler_stop(ps), ps.active.mSamplerThread,
                 "stop_join")

JoinPcs == {"start_join", "ensure_join", "stop_join", "shutdown_join"}

\* `delete samplerThread` with gPSMutex released: ~SamplerThread joins the
\* thread, which returns once Run has returned.
DeleteSamplerThread(t) ==
  /\ Running
  /\ pc[t] \in JoinPcs
  /\ ps.samplers[hnd[t]].state = "exited"
  /\ ps' = [ps EXCEPT !.samplers[hnd[t]].state = "deleted"]
  /\ pc' = [pc EXCEPT ![t] = "idle"]
  /\ hnd' = [hnd EXCEPT ![t] = NullPtr]
  /\ UNCHANGED <<lockOwner, args, aborted, cs, rf>>

\* profiler_register_thread, up to its PSAutoLock.
profiler_register_thread_call_upto(t, max) ==
  /\ Running
  /\ pc[t] = "idle"
  /\ MayRegisterUpto(max)
  /\ IF ~ps.coreExists
     THEN Abort("profiler_register_thread: MOZ_RELEASE_ASSERT(CorePS::Exists())")
     ELSE /\ pc' = [pc EXCEPT ![t] = "register_lock"]
          /\ UNCHANGED <<ps, lockOwner, args, hnd, aborted, cs, rf>>

profiler_register_thread_call(t) ==
  profiler_register_thread_call_upto(t, MaxRegs)

\* profiler_register_thread under the lock: locked_register_thread.
profiler_register_thread_body(t) ==
  /\ Running
  /\ pc[t] = "register_body"
  /\ lockOwner = t
  /\ IF ~ps.coreExists
     THEN Abort("locked_register_thread: MOZ_RELEASE_ASSERT(CorePS::Exists())")
     ELSE IF FindCurrentThreadRegisteredThread(ps, t) # NullPtr
     THEN Abort("locked_register_thread: MOZ_RELEASE_ASSERT(!FindCurrentThreadRegisteredThread(aLock))")
     ELSE Return(t, locked_register_thread(ps, t), NullPtr, "idle")

\* profiler_unregister_thread, up to its PSAutoLock.  Without CorePS it
\* returns at once.
profiler_unregister_thread_call(t) ==
  /\ Running
  /\ pc[t] = "idle"
  /\ ps.coreExists
  /\ pc' = [pc EXCEPT ![t] = "unregister_lock"]
  /\ UNCHANGED <<ps, lockOwner, args, hnd, aborted, cs, rf>>

\* The release assertion of ActivePS::DiscardExpiredDeadProfiledThreads.
DeadThreadsStamped(a) ==
  \A i \in 1..Len(a.mDeadProfiledThreads) :
     a.mDeadProfiledThreads[i].mBufferPositionWhenUnregistered.some

\* profiler_unregister_thread under the lock.
profiler_unregister_thread_body(t) ==
  /\ Running
  /\ pc[t] = "unregister_body"
  /\ lockOwner = t
  /\ IF ~ps.coreExists
     THEN Abort("CorePS::RegisteredThreads: sInstance is null")
     ELSE LET registeredThread == FindCurrentThreadRegisteredThread(ps, t)
          IN  IF registeredThread # ps.tls[t]
              THEN Abort("profiler_unregister_thread: MOZ_RELEASE_ASSERT(registeredThread == TLSRegisteredThread::RegisteredThread(lock))")
              ELSE IF registeredThread = NullPtr
              THEN Return(t, ps, NullPtr, "idle")
              ELSE IF ps.activeExists /\ ~DeadThreadsStamped(ps.active)
              THEN Abort("DiscardExpiredDeadProfiledThreads: should have unregistered this thread")
              ELSE LET unregistered ==
                         IF ps.activeExists
                         THEN [ps EXCEPT
                                 !.active =
                                    ActivePS_UnregisterThread(@, ps.buffer,
                                                              registeredThread),
                                 !.discarded =
                                    @ + Len(ps.active.mDeadProfiledThreads)
                                      - Len(DiscardExpiredDeadProfiledThreads(
                                              ps.active.mDeadProfiledThreads,
                                              ps.buffer.rangeStart))]
                         ELSE ps
                       cleared == [unregistered EXCEPT !.tls[t] = NullPtr]
                   IN  Return(t, CorePS_RemoveRegisteredThread(
                                   cleared, registeredThread),
                              NullPtr, "idle")

(***************************************************************************)
(* SamplerThread::Run.  Sampler s is the s-th SamplerThread constructed;   *)
(* it holds gPSMutex as -s.                                                *)
(***************************************************************************)
Samplers == 1..MaxStarts

\* The lambda that opens Run: it reads FeatureNoStackSampling of whatever
\* ActivePS exists, under the lock.
SamplerThread_Run_begin(s) ==
  /\ Running
  /\ s <= Len(ps.samplers)
  /\ ps.samplers[s].state = "created"
  /\ lockOwner = NoThread
  /\ ps' = [ps EXCEPT
             !.samplers[s].state = "loop",
             !.samplers[s].noStackSampling =
                ps.activeExists /\ "NoStackSampling" \in ps.active.mFeatures]
  /\ UNCHANGED <<lockOwner, pc, args, hnd, aborted, cs, rf>>

\* A loop that returns only when no ActivePS exists.
SamplerReturns_AnyGeneration(s, sampler) == ~s.activeExists

\* What the loop decides once it has the lock.
SamplerReturns(s, sampler) ==
  ~s.activeExists \/ s.active.mGeneration # sampler.mActivityGeneration

\* RacyRegisteredThread::SetSleeping and SetAwake.
SetSleeping(rt) == [rt EXCEPT !.mSleep = "SLEEPING_NOT_OBSERVED"]
SetAwake(rt) == [rt EXCEPT !.mSleep = "AWAKE"]

\* RacyRegisteredThread::CanDuplicateLastSampleDueToSleep: the answer, and
\* the thread's flags afterwards (the first sample of a sleep episode marks
\* the episode as sampled).
CanDuplicateLastSampleDueToSleep(rt) ==
  [can |-> rt.mSleep = "SLEEPING_OBSERVED",
   rt |-> IF rt.mSleep = "SLEEPING_NOT_OBSERVED"
          THEN [rt EXCEPT !.mSleep = "SLEEPING_OBSERVED"] ELSE rt]

\* ProfileBuffer::DuplicateLastSample: copies the sample of thread tid that
\* starts at aLastSample to the end of the buffer and moves aLastSample
\* there; fails if there is no such sample in the buffer any more.
DuplicateLastSample(b, tid, aLastSample) ==
  LET found == /\ aLastSample.some
               /\ aLastSample.v >= b.rangeStart
               /\ aLastSample.v < b.rangeEnd
               /\ b.entries[aLastSample.v - b.rangeStart + 1].kind = "Sample"
               /\ b.entries[aLastSample.v - b.rangeStart + 1].tid = tid
  IN  IF found
      THEN [ok |-> TRUE,
            buffer |-> BufferAppend(b, b.entries[aLastSample.v - b.rangeStart + 1]),
            aLastSample |-> Some(b.rangeEnd)]
      ELSE [ok |-> FALSE, buffer |-> b, aLastSample |-> Nothing]

\* The index in CorePS::mRegisteredThreads of the RegisteredThread rid.
RegisteredIndex(s, rid) ==
  CHOOSE k \in 1..Len(s.mRegisteredThreads) : s.mRegisteredThreads[k].rid = rid

\* A loop body without the `continue` after a successful duplication.
SkipsFreshSample_Never(canDuplicate, dup_ok) == FALSE

\* `if (CanDuplicateLastSampleDueToSleep()) { dup_ok = ...; if (dup_ok)
\* continue; }`: whether the loop goes on to the next thread without
\* suspending this one.
SkipsFreshSample(canDuplicate, dup_ok) == canDuplicate /\ dup_ok

\* The body of the loop over the live threads, for the i-th of them.
SampleOneThread(s, by, i) ==
  LET live == s.active.mLiveProfiledThreads[i]
      k == RegisteredIndex(s, live.mRegisteredThread)
      asked == CanDuplicateLastSampleDueToSleep(s.mRegisteredThreads[k])
      dup == DuplicateLastSample(s.buffer, asked.rt.tid,
                                 live.mProfiledThreadData.mLastSample)
      flagged == [s EXCEPT !.mRegisteredThreads[k] = asked.rt]
      duplicated ==
        IF asked.can
        THEN [flagged EXCEPT
               !.buffer = dup.buffer,
               !.active.mLiveProfiledThreads[i].mProfiledThreadData.mLastSample =
                  dup.aLastSample]
        ELSE flagged
  IN  IF SkipsFreshSample(asked.can, dup.ok) THEN duplicated
      ELSE [duplicated EXCEPT
             !.active.mLiveProfiledThreads[i].mProfiledThreadData.mLastSample =
                Some(duplicated.buffer.rangeEnd),
             !.unwinds = @ + 1,
             !.buffer = BufferAppend(@, SampleEntry(
                           live.mProfiledThreadData.tid,
                           live.mRegisteredThread, s.active.mGeneration,
                           by, asked.rt.stackSize))]

\* One periodic sample of every live profiled thread, in list order: the
\* sample's block goes to the core buffer and its position is remembered in
\* the thread's ProfiledThreadData.
RECURSIVE SampleLiveThreads(_, _, _)
SampleLiveThreads(s, by, i) ==
  IF i > Len(s.active.mLiveProfiledThreads) THEN s
  ELSE SampleLiveThreads(SampleOneThread(s, by, i), by, i + 1)

\* The predicate of ClearExpiredExitProfiles' eraseIf.
IsExpiredExitProfile(aExitProfile, bufferRangeStart) ==
  aExitProfile.mBufferPositionAtGatherTime < bufferRangeStart

\* ActivePS::ClearExpiredExitProfiles
ClearExpiredExitProfiles(s) ==
  [s EXCEPT !.active.mExitProfiles =
     SelectSeq(@, LAMBDA x : ~IsExpiredExitProfile(x, s.buffer.rangeStart))]

\* ActivePS::AddExitProfile
AddExitProfile(s, aExitProfile) ==
  [ClearExpiredExitProfiles(s) EXCEPT
     !.active.mExitProfiles =
        Append(@, [mJSON |-> aExitProfile,
                   mBufferPositionAtGatherTime |-> s.buffer.rangeEnd])]

\* An iteration that samples although the profiler is paused.
SamplesThisIteration_EvenPaused(a) == TRUE

\* `if (!ActivePS::IsPaused(lock))`: whether the iteration samples.
SamplesThisIteration(a) == ~a.mIsPaused

\* The top of a loop iteration: take the lock, return if the session this
\* sampler was created for is gone; otherwise discard the expired exit
\* profiles and go on, under the lock, to what the iteration does.  (An
\* iteration that samples needs room for its samples below maxPos.)
SamplerThread_Run_iteration(s, maxPos) ==
  /\ Running
  /\ s <= Len(ps.samplers)
  /\ ps.samplers[s].state = "loop"
  /\ lockOwner = NoThread
  /\ IF SamplerReturns(ps, ps.samplers[s])
     THEN /\ ps' = [ps EXCEPT !.samplers[s].state = "exited"]
          /\ UNCHANGED <<lockOwner, pc, args, hnd, aborted, cs, rf>>
     ELSE /\ SamplesThisIteration(ps.active) =>
               ps.buffer.rangeEnd + Len(ps.active.mLiveProfiledThreads)
                 <= maxPos
          /\ ps' = [ClearExpiredExitProfiles(ps) EXCEPT
                      !.samplers[s].state = "sampling"]
          /\ lockOwner' = -s
          /\ UNCHANGED <<pc, args, hnd, aborted, cs, rf>>

SamplerThread_Run_iterate(s) == SamplerThread_Run_iteration(s, MaxPos)

\* The rest of the iteration, still under the lock: unless the profiler is
\* paused, sample every live thread; then release the lock and sleep.
SamplerThread_Run_sample(s) ==
  /\ Running
  /\ s <= Len(ps.samplers)
  /\ ps.samplers[s].state = "sampling"
  /\ lockOwner = -s
  /\ LET sampled == IF ~SamplesThisIteration(ps.active)
                       \/ ps.samplers[s].noStackSampling
                    THEN ps
                    ELSE SampleLiveThreads(ps, ps.samplers[s].mActivityGeneration, 1)
     IN  ps' = [sampled EXCEPT !.samplers[s].state = "loop"]
  /\ lockOwner' = NoThread
  /\ UNCHANGED <<pc, args, hnd, aborted, cs, rf>>

(***************************************************************************)
(* The program.                                                            *)
(***************************************************************************)
InitWith(firstGeneration) ==
  /\ ps = InitPS(firstGeneration)
  /\ lockOwner = NoThread
  /\ pc = [t \in Threads |-> "idle"]
  /\ args = [t \in Threads |-> NoArgs]
  /\ hnd = [t \in Threads |-> NullPtr]
  /\ aborted = "no"
  /\ cs = NoSample
  /\ rf = NewRootFront

Init == InitWith([hi |-> 0, lo |-> 0])

Next ==
  \/ \E t \in Threads : Lock(t)
  \/ \E t \in Threads : RecursiveLock(t)
  \/ \E t \in Threads : profiler_init_call(t)
  \/ \E t \in Threads, startup \in BOOLEAN : profiler_init_body(t, startup)
  \/ \E t \in Threads : profiler_shutdown_call(t)
  \/ \E t \in Threads : profiler_shutdown_body(t)
  \/ \E t \in Threads, p \in StartParams : profiler_start_call(t, p)
  \/ \E t \in Threads : profiler_start_body(t)
  \/ \E t \in Threads, p \in StartParams : profiler_ensure_started_call(t, p)
  \/ \E t \in Threads : profiler_ensure_started_body(t)
  \/ \E t \in Threads : profiler_stop_call(t)
  \/ \E t \in Threads : profiler_stop_body(t)
  \/ \E t \in Threads : DeleteSamplerThread(t)
  \/ \E t \in Threads : profiler_register_thread_call(t)
  \/ \E t \in Threads : profiler_register_thread_body(t)
  \/ \E t \in Threads : profiler_unregister_thread_call(t)
  \/ \E t \in Threads : profiler_unregister_thread_body(t)
  \/ \E s \in Samplers : SamplerThread_Run_begin(s)
  \/ \E s \in Samplers : SamplerThread_Run_iterate(s)
  \/ \E s \in Samplers : SamplerThread_Run_sample(s)

Spec == Init /\ [][Next]_vars

\* The process after 2^32 - 1 ActivePS have been created and destroyed (for
\* instance by that many profiler_start / profiler_stop pairs) and
\* profiler_shutdown has run: sNextGeneration is 0xFFFFFFFF, and everything
\* else is as at process start.
InitWrap == InitWith([hi |-> HalfWordMod - 1, lo |-> HalfWordMod - 1])
SpecWrap == InitWrap /\ [][Next]_vars

(***************************************************************************)
(* One periodic sample, step by step, against threads that insert markers. *)
(* The internal mutex of the core BlocksRingBuffer is cs.mutex; a thread   *)
(* stopped by SuspendAndSampleAndResumeThread is cs.suspended and takes no *)
(* step until it is resumed.                                               *)
(***************************************************************************)
\* Markers that may be inserted in one behaviour.
MaxMarkers == 2

\* The buffer SamplerThread::Run hands to DoPeriodicSample is the core
\* ProfileBuffer instead of localProfileBuffer.
CallbackBuffer_Core == "core"

\* The buffer SamplerThread::Run hands to DoPeriodicSample.
CallbackBuffer == "local"

\* Whether a buffer takes a mutex in its operations: the core buffer does,
\* localBlocksRingBuffer is constructed WithoutMutex.
IsThreadSafe(buffer) == buffer = "core"

ThreadIdEntry(tid, rid, gen, by) ==
  [kind |-> "ThreadId", tid |-> tid, rid |-> rid, gen |-> gen, by |-> by]
TimeEntry(tid, rid, gen, by) ==
  [kind |-> "Time", tid |-> tid, rid |-> rid, gen |-> gen, by |-> by]
FramesEntry(tid, rid, gen, by) ==
  [kind |-> "Frames", tid |-> tid, rid |-> rid, gen |-> gen, by |-> by]
MarkerEntry(tid, rid, gen) ==
  [kind |-> "Marker", tid |-> tid, rid |-> rid, gen |-> gen, by |-> gen]

RacyFeatures_IsActiveAndUnpausedWithoutPrivacy(word) ==
  "Active" \in word /\ "Paused" \notin word /\ "Privacy" \notin word

RacyFeatures_IsActiveWithoutPrivacy(word) ==
  "Active" \in word /\ "Privacy" \notin word

\* A gate that is shut while the profiler is paused.
profiler_can_accept_markers_Unpaused(word) ==
  RacyFeatures_IsActiveAndUnpausedWithoutPrivacy(word)

\* profiler_can_accept_markers: markers are taken while the profiler is
\* active, paused or not.
profiler_can_accept_markers(word) == RacyFeatures_IsActiveWithoutPrivacy(word)

\* `racyRegisteredThread && racyRegisteredThread->IsBeingProfiled()` on
\* thread t.
IsBeingProfiled(s, t) ==
  /\ s.tls[t] # NullPtr
  /\ \E r \in Range(s.mRegisteredThreads) :
       r.rid = s.tls[t] /\ r.isBeingProfiled

\* The live thread the sampler is sampling.
SampledThread == ps.active.mLiveProfiledThreads[cs.i + 1]
SamplerSampling(s) ==
  /\ Running
  /\ s <= Len(ps.samplers)
  /\ ps.samplers[s].state = "sampling"
  /\ lockOwner = -s
  /\ SamplesThisIteration(ps.active)
  /\ ~ps.samplers[s].noStackSampling
NewEntry(entry(_, _, _, _), s) ==
  entry(SampledThread.mProfiledThreadData.tid, SampledThread.mRegisteredThread,
        ps.active.mGeneration, ps.samplers[s].mActivityGeneration)

\* buffer.AddThreadIdEntry(...); profiledThreadData->LastSample() = Some(samplePos)
Sample_AddThreadIdEntry(s) ==
  /\ SamplerSampling(s)
  /\ cs.step = "idle"
  /\ cs.i < Len(ps.active.mLiveProfiledThreads)
  /\ ~CanDuplicateLastSampleDueToSleep(
        ps.mRegisteredThreads[
          RegisteredIndex(ps, SampledThread.mRegisteredThread)]).can
  /\ cs.mutex = NoThread
  /\ ps' = [ps EXCEPT
             !.active.mLiveProfiledThreads[cs.i + 1].mProfiledThreadData
                .mLastSample = Some(ps.buffer.rangeEnd),
             !.buffer = BufferAppend(@, NewEntry(ThreadIdEntry, s))]
  /\ cs' = [cs EXCEPT !.step = "time"]
  /\ UNCHANGED <<lockOwner, pc, args, hnd, aborted, rf>>

\* buffer.AddEntry(ProfileBufferEntry::Time(...))
Sample_AddTimeEntry(s) ==
  /\ SamplerSampling(s)
  /\ cs.step = "time"
  /\ cs.mutex = NoThread
  /\ ps' = [ps EXCEPT !.buffer = BufferAppend(@, NewEntry(TimeEntry, s))]
  /\ cs' = [cs EXCEPT !.step = "suspend"]
  /\ UNCHANGED <<lockOwner, pc, args, hnd, aborted, rf>>

\* SuspendAndSampleAndResumeThread stops the thread, wherever it is.
Sample_Suspend(s) ==
  /\ SamplerSampling(s)
  /\ cs.step = "suspend"
  /\ cs' = [cs EXCEPT !.step = "callback",
                      !.suspended = SampledThread.mProfiledThreadData.tid,
                      !.suspensions =
                         @ \cup {[by |-> -s,
                                  target |-> SampledThread.mProfiledThreadData.tid]}]
  /\ UNCHANGED <<ps, lockOwner, pc, args, hnd, aborted, rf>>

\* localProfileBuffer is MakePowerOfTwo32<65536>() bytes long; ActivePS's
\* ProfileBuffer is 8 bytes per entry of its capacity.
LocalBufferLength == 65536
\* A uint32_t as its two half-words, and the order of two of them.
Word(v) == [hi |-> v \div HalfWordMod, lo |-> v % HalfWordMod]
WordLess(a, b) == a.hi < b.hi \/ (a.hi = b.hi /\ a.lo < b.lo)
\* `// 8 bytes per entry.`
BytesPerEntry == 8
\* `aCapacity.Value() * 8`, a multiplication of uint32_t: the product modulo
\* 2^32.
TimesBytesPerEntry(v) ==
  LET perHalfWord == HalfWordMod \div BytesPerEntry
  IN  [hi |-> (v \div perHalfWord) % HalfWordMod,
       lo |-> (v % perHalfWord) * BytesPerEntry]
CoreBufferLength(s) == TimesBytesPerEntry(s.active.mCapacity)

\* The bytes one stack sample may take: a short one, one that just fills the
\* local buffer, and one that does not fit.
SampleBytes == {8, 65536, 65537}

\* A block written to the local buffer: one that is longer than the buffer
\* is not stored and advances mClearedBlockCount.
LocalClears(bytes) == bytes > LocalBufferLength
LocalPut(scratch, entry, bytes) ==
  IF LocalClears(bytes) THEN scratch ELSE Append(scratch, entry)

\* The callback: DoPeriodicSample, DoSharedSample write the sample's frames
\* to the buffer they are given.  DoSharedSample release-asserts that
\* ActivePS exists; a buffer with a mutex fails its MOZ_ASSERT and is locked
\* for the write.
Sample_DoPeriodicSample(s) ==
  /\ SamplerSampling(s)
  /\ cs.step = "callback"
  /\ IF ~ps.activeExists
     THEN Abort("DoSharedSample: MOZ_RELEASE_ASSERT(ActivePS::Exists(aLock))")
     ELSE IF IsThreadSafe(CallbackBuffer)
     THEN /\ cs.mutex = NoThread
          /\ ps' = [ps EXCEPT
                     !.failedAssertions =
                        @ \cup {"DoSharedSample: !aBuffer.IsThreadSafe()"},
                     !.buffer = BufferAppend(@, NewEntry(FramesEntry, s))]
          /\ cs' = [cs EXCEPT !.step = "resume"]
          /\ UNCHANGED <<lockOwner, pc, args, hnd, aborted, rf>>
     ELSE /\ \E bytes \in SampleBytes :
               cs' = [cs EXCEPT
                       !.step = "resume",
                       !.scratch = LocalPut(@, NewEntry(FramesEntry, s), bytes),
                       !.bytes = bytes,
                       !.cleared = LocalClears(bytes)]
          /\ UNCHANGED <<ps, lockOwner, pc, args, hnd, aborted, rf>>

\* SuspendAndSampleAndResumeThread lets the thread run again.
Sample_Resume(s) ==
  /\ SamplerSampling(s)
  /\ cs.step = "resume"
  /\ cs' = [cs EXCEPT !.step = "append", !.suspended = NoThread,
                      !.suspensions = {x \in @ : x.by # -s}]
  /\ UNCHANGED <<ps, lockOwner, pc, args, hnd, aborted, rf>>

RECURSIVE AppendContents(_, _)
\* CorePS::CoreBlocksRingBuffer().AppendContents(localBlocksRingBuffer)
AppendContents(b, scratch) ==
  IF scratch = <<>> THEN b
  ELSE AppendContents(BufferAppend(b, Head(scratch)), Tail(scratch))

\* A sampler that copies whatever the local buffer holds.
SampleIsComplete_Always(cleared, bytes, coreLength) == TRUE

\* `If data is complete, copy it into the global buffer`: the local buffer
\* cleared no block, and the sample is shorter than the core buffer.
SampleIsComplete(cleared, bytes, coreLength) ==
  ~cleared /\ WordLess(Word(bytes), coreLength)

\* After the callback: AppendContents unless the sample is too big,
\* localBlocksRingBuffer.Clear(), and on to the next live thread; after the
\* last one the iteration ends and the sampler releases gPSMutex.
Sample_AppendContents(s) ==
  /\ SamplerSampling(s)
  /\ cs.step = "append"
  /\ cs.mutex = NoThread
  /\ LET complete == SampleIsComplete(cs.cleared, cs.bytes,
                                      CoreBufferLength(ps))
         appended == IF complete
                     THEN [ps EXCEPT !.buffer = AppendContents(@, cs.scratch)]
                     ELSE ps
         last == cs.i + 1 = Len(ps.active.mLiveProfiledThreads)
     IN  /\ ps' = IF last THEN [appended EXCEPT !.samplers[s].state = "loop"]
                  ELSE appended
         /\ lockOwner' = IF last THEN NoThread ELSE lockOwner
         /\ cs' = [cs EXCEPT
                     !.step = "idle", !.scratch = <<>>, !.bytes = 0,
                     !.cleared = FALSE,
                     !.tooBig = IF complete THEN @
                                ELSE SampledThread.mProfiledThreadData.mLastSample,
                     !.i = IF last THEN 0 ELSE @ + 1]
  /\ UNCHANGED <<pc, args, hnd, aborted, rf>>

\* racy_profiler_add_marker, up to PutObjects.
racy_profiler_add_marker_call(t) ==
  /\ Running
  /\ pc[t] = "idle"
  /\ cs.suspended # t
  /\ cs.markers < MaxMarkers
  /\ IF ~ps.coreExists
     THEN Abort("racy_profiler_add_marker: MOZ_RELEASE_ASSERT(CorePS::Exists())")
     ELSE /\ pc' = [pc EXCEPT ![t] =
                     IF /\ profiler_can_accept_markers(ps.sActiveAndFeatures)
                        /\ IsBeingProfiled(ps, t)
                     THEN "marker_put" ELSE "idle"]
          /\ cs' = [cs EXCEPT !.markers = @ + 1]
          /\ UNCHANGED <<ps, lockOwner, args, hnd, aborted, rf>>

\* PutObjects locks the core buffer's mutex.
PutObjects_lock(t) ==
  /\ Running
  /\ pc[t] = "marker_put"
  /\ cs.suspended # t
  /\ cs.mutex = NoThread
  /\ cs' = [cs EXCEPT !.mutex = t]
  /\ pc' = [pc EXCEPT ![t] = "marker_write"]
  /\ UNCHANGED <<ps, lockOwner, args, hnd, aborted, rf>>

\* PutObjects writes the marker and unlocks.
PutObjects_write(t) ==
  /\ Running
  /\ pc[t] = "marker_write"
  /\ cs.suspended # t
  /\ cs.mutex = t
  /\ ps' = [ps EXCEPT
              !.buffer = BufferAppend(@, MarkerEntry(t, ps.tls[t],
                                                     ps.active.mGeneration)),
              !.returned[t] = IF ps.buffer.open THEN "block" ELSE "no block"]
  /\ cs' = [cs EXCEPT !.mutex = NoThread]
  /\ pc' = [pc EXCEPT ![t] = "idle"]
  /\ UNCHANGED <<lockOwner, args, hnd, aborted, rf>>

\* The process once profiler_init has run, thread 2 has registered,
\* profiler_start(ParamsPlain) has returned and the sampler thread has
\* entered its loop.
SamplingPS ==
  LET core == CorePS_Create(InitPS([hi |-> 0, lo |-> 0]), InitThread)
      main == locked_register_thread(core, InitThread)
      both == locked_register_thread(main, 2)
      started == locked_profiler_start(both, ParamsPlain)
  IN  [started EXCEPT !.samplers[1].state = "loop"]

InitSuspend ==
  /\ ps = SamplingPS
  /\ lockOwner = NoThread
  /\ pc = [t \in Threads |-> "idle"]
  /\ args = [t \in Threads |-> NoArgs]
  /\ hnd = [t \in Threads |-> NullPtr]
  /\ aborted = "no"
  /\ cs = NoSample
  /\ rf = NewRootFront

NextSuspend ==
  \/ \E s \in Samplers : SamplerThread_Run_iterate(s)
  \/ \E s \in Samplers : Sample_AddThreadIdEntry(s)
  \/ \E s \in Samplers : Sample_AddTimeEntry(s)
  \/ \E s \in Samplers : Sample_Suspend(s)
  \/ \E s \in Samplers : Sample_DoPeriodicSample(s)
  \/ \E s \in Samplers : Sample_Resume(s)
  \/ \E s \in Samplers : Sample_AppendContents(s)
  \/ \E t \in Threads : racy_profiler_add_marker_call(t)
  \/ \E t \in Threads : PutObjects_lock(t)
  \/ \E t \in Threads : PutObjects_write(t)

SpecSuspend == InitSuspend /\ [][NextSuspend]_vars

(***************************************************************************)
(* profiler_suspend_and_sample_thread: a thread samples the thread with a  *)
(* given id with a Sampler of its own, while the sampler thread samples    *)
(* periodically and threads unregister.                                    *)
(***************************************************************************)
\* The threads that are stopped by a Sampler.
Suspended == {x.target : x \in cs.suspensions}

\* A profiler_suspend_and_sample_thread whose PSAutoLock ends before the
\* target is suspended.
OwnerWhileSuspended_Nobody(t) == NoThread

\* The owner of gPSMutex while the caller t has its target suspended: the
\* PSAutoLock of profiler_suspend_and_sample_thread lives until the function
\* returns.
OwnerWhileSuspended(t) == t

\* The thread that profiler_suspend_and_sample_thread(aThreadId) suspends:
\* the first registered thread with that id, or none.
SuspendTarget(s, aThreadId) ==
  IF \E i \in 1..Len(s.mRegisteredThreads) :
       s.mRegisteredThreads[i].tid = aThreadId
  THEN aThreadId ELSE NoThread

profiler_suspend_and_sample_thread_call(t, aThreadId) ==
  /\ Running
  /\ pc[t] = "idle"
  /\ pc' = [pc EXCEPT ![t] = "suspend_lock"]
  /\ args' = [args EXCEPT ![t] = [aThreadId |-> aThreadId]]
  /\ UNCHANGED <<ps, lockOwner, hnd, aborted, cs, rf>>

\* Under the lock: the loop over the registered threads, up to the moment the
\* target is suspended.  A thread that suspends itself never runs again.
profiler_suspend_and_sample_thread_body(t) ==
  /\ Running
  /\ pc[t] = "suspend_body"
  /\ lockOwner = t
  /\ IF ~ps.coreExists
     THEN Abort("CorePS::RegisteredThreads: sInstance is null")
     ELSE LET target == SuspendTarget(ps, args[t].aThreadId)
          IN  IF target = NoThread THEN Return(t, ps, NullPtr, "idle")
              ELSE /\ cs' = [cs EXCEPT !.suspensions =
                                @ \cup {[by |-> t, target |-> target]}]
                   /\ pc' = [pc EXCEPT ![t] =
                               IF target = t THEN "deadlocked"
                               ELSE "suspend_callback"]
                   /\ lockOwner' = OwnerWhileSuspended(t)
                   /\ UNCHANGED <<ps, args, hnd, aborted, rf>>

\* The callback (MergeStacks into aCollector), the target's resumption,
\* sampler.Disable and the end of the PSAutoLock.
profiler_suspend_and_sample_thread_resume(t) ==
  /\ Running
  /\ pc[t] = "suspend_callback"
  /\ cs' = [cs EXCEPT !.suspensions = {x \in @ : x.by # t}]
  /\ pc' = [pc EXCEPT ![t] = "idle"]
  /\ args' = [args EXCEPT ![t] = NoArgs]
  /\ lockOwner' = IF lockOwner = t THEN NoThread ELSE lockOwner
  /\ UNCHANGED <<ps, hnd, aborted, rf>>

NextSuspendApi ==
  \/ \E t \in Threads \ Suspended : Lock(t)
  \/ \E t \in Threads \ Suspended, aThreadId \in Threads :
       profiler_suspend_and_sample_thread_call(t, aThreadId)
  \/ \E t \in Threads \ Suspended : profiler_suspend_and_sample_thread_body(t)
  \/ \E t \in Threads \ Suspended : profiler_suspend_and_sample_thread_resume(t)
  \/ \E t \in Threads \ Suspended : profiler_unregister_thread_call(t)
  \/ \E t \in Threads \ Suspended : profiler_unregister_thread_body(t)
  \/ \E s \in Samplers : SamplerThread_Run_iterate(s)
  \/ \E s \in Samplers : Sample_AddThreadIdEntry(s)
  \/ \E s \in Samplers : Sample_AddTimeEntry(s)
  \/ \E s \in Samplers : Sample_Suspend(s)
  \/ \E s \in Samplers : Sample_DoPeriodicSample(s)
  \/ \E s \in Samplers : Sample_Resume(s)
  \/ \E s \in Samplers : Sample_AppendContents(s)

SpecSuspendApi == InitSuspend /\ [][NextSuspendApi]_vars

(***************************************************************************)
(* Stopping and restarting the profiler while the sampler thread takes a   *)
(* periodic sample step by step.                                           *)
(***************************************************************************)
\* Buffer positions written by samples taken step by step: room for a
\* sample of both threads in each of two sessions.
MaxStepPos == 8

SamplerThread_Run_iterate_stepwise(s) ==
  SamplerThread_Run_iteration(s, MaxStepPos)

NextCancel ==
  \/ \E t \in Threads \ Suspended : Lock(t)
  \/ \E t \in Threads \ Suspended : profiler_stop_call(t)
  \/ \E t \in Threads \ Suspended : profiler_stop_body(t)
  \/ \E t \in Threads \ Suspended : profiler_start_call(t, ParamsPlain)
  \/ \E t \in Threads \ Suspended : profiler_start_body(t)
  \/ \E t \in Threads \ Suspended : DeleteSamplerThread(t)
  \/ \E s \in Samplers : SamplerThread_Run_begin(s)
  \/ \E s \in Samplers : SamplerThread_Run_iterate_stepwise(s)
  \/ \E s \in Samplers : Sample_AddThreadIdEntry(s)
  \/ \E s \in Samplers : Sample_AddTimeEntry(s)
  \/ \E s \in Samplers : Sample_Suspend(s)
  \/ \E s \in Samplers : Sample_DoPeriodicSample(s)
  \/ \E s \in Samplers : Sample_Resume(s)
  \/ \E s \in Samplers : Sample_AppendContents(s)

SpecCancel == InitSuspend /\ [][NextCancel]_vars

(***************************************************************************)
(* Thread selection.  The process after profiler_init; the application     *)
(* starts the profiler with each kind of filter while threads register and *)
(* unregister.                                                             *)
(***************************************************************************)
Filter(chars) == << chars >>
FilterLists ==
  {Filter(StarFilter), Filter(<<"m","a","i","n">>),
   Filter(<<"G","E","C","K","O">>), Filter(<<"w","o","r","k","e","r">>),
   Filter(PidPrefix \o MyPidString), Filter(<<"P","I","D",":">> \o MyPidString),
   Filter(PidPrefix \o <<"7">>)}
FilterParams ==
  {[ParamsPlain EXCEPT !.features = {"Leaf"}], ParamsPlain}
    \cup {[ParamsPlain EXCEPT !.features = {"Leaf"}, !.filters = f] :
            f \in FilterLists}

\* profiler_init has returned: CorePS exists and the main thread is registered.
InitializedPS ==
  locked_register_thread(CorePS_Create(InitPS([hi |-> 0, lo |-> 0]), InitThread),
                         InitThread)

InitFilter ==
  /\ ps = InitializedPS
  /\ lockOwner = NoThread
  /\ pc = [t \in Threads |-> "idle"]
  /\ args = [t \in Threads |-> NoArgs]
  /\ hnd = [t \in Threads |-> NullPtr]
  /\ aborted = "no"
  /\ cs = NoSample
  /\ rf = NewRootFront

NextFilter ==
  \/ \E t \in Threads : Lock(t)
  \/ \E p \in FilterParams : profiler_start_call(InitThread, p)
  \/ profiler_start_body(InitThread)
  \/ DeleteSamplerThread(InitThread)
  \/ \E t \in Threads : profiler_register_thread_call(t)
  \/ \E t \in Threads : profiler_register_thread_body(t)
  \/ \E t \in Threads : profiler_unregister_thread_call(t)
  \/ \E t \in Threads : profiler_unregister_thread_body(t)
  \/ \E s \in Samplers : SamplerThread_Run_begin(s)
  \/ \E s \in Samplers : SamplerThread_Run_iterate(s)
  \/ \E s \in Samplers : SamplerThread_Run_sample(s)

SpecFilter == InitFilter /\ [][NextFilter]_vars

(***************************************************************************)
(* Sleeping threads.  A thread tells the profiler that it is about to      *)
(* block (profiler_thread_sleep) and that it runs again                    *)
(* (profiler_thread_wake); it pushes and pops label frames.                *)
(***************************************************************************)
\* Label frames a thread may have on its profiling stack.
MaxLabels == 1

\* Buffer positions written while threads sleep: enough for a sample, two
\* markers that push it out of the ring, and the sample after them.
MaxSleepPos == 4

\* The sampler's loop, with room in the buffer for MaxSleepPos blocks.
SamplerThread_Run_iterate_asleep(s) ==
  SamplerThread_Run_iteration(s, MaxSleepPos)

\* Whether TLSRegisteredThread of thread t points to a RegisteredThread.
HasRacyRegisteredThread(t) ==
  /\ ps.tls[t] # NullPtr
  /\ \E k \in 1..Len(ps.mRegisteredThreads) :
       ps.mRegisteredThreads[k].rid = ps.tls[t]

\* TLSRegisteredThread::RacyRegisteredThread() of thread t.
RacyRegisteredThread(t) ==
  ps.mRegisteredThreads[RegisteredIndex(ps, ps.tls[t])]

\* A step of thread t that leaves its own RacyRegisteredThread as rt,
\* without gPSMutex.
OnRacyRegisteredThread(t, rt) ==
  /\ Running
  /\ pc[t] = "idle"
  /\ HasRacyRegisteredThread(t)
  /\ ps' = [ps EXCEPT !.mRegisteredThreads[RegisteredIndex(ps, ps.tls[t])] = rt]
  /\ ps' # ps
  /\ UNCHANGED <<lockOwner, pc, args, hnd, aborted, cs, rf>>

profiler_thread_sleep(t) ==
  OnRacyRegisteredThread(t, SetSleeping(RacyRegisteredThread(t)))

profiler_thread_wake(t) ==
  OnRacyRegisteredThread(t, SetAwake(RacyRegisteredThread(t)))

\* ProfilingStack::pushLabelFrame and pop, through AutoProfilerLabel.
PushLabelFrame(rt) ==
  IF rt.stackSize < MaxLabels THEN [rt EXCEPT !.stackSize = @ + 1] ELSE rt
PopLabelFrame(rt) ==
  IF rt.stackSize > 0 THEN [rt EXCEPT !.stackSize = @ - 1] ELSE rt

MozGlueBaseLabelEnter(t) ==
  OnRacyRegisteredThread(t, PushLabelFrame(RacyRegisteredThread(t)))

MozGlueBaseLabelExit(t) ==
  OnRacyRegisteredThread(t, PopLabelFrame(RacyRegisteredThread(t)))

\* The thread that starts, stops, pauses, resumes and streams the profiler
\* and registers the pages; the main thread sleeps and adds the markers.
Controller == 2

NextSleep ==
  \/ \E t \in Threads : Lock(t)
  \/ profiler_start_call(Controller, ParamsPlain)
  \/ profiler_start_body(Controller)
  \/ profiler_stop_call(Controller)
  \/ profiler_stop_body(Controller)
  \/ DeleteSamplerThread(Controller)
  \/ \E s \in Samplers : SamplerThread_Run_begin(s)
  \/ \E s \in Samplers : SamplerThread_Run_iterate_asleep(s)
  \/ \E s \in Samplers : SamplerThread_Run_sample(s)
  \/ \E t \in Threads : racy_profiler_add_marker_call(t)
  \/ \E t \in Threads : PutObjects_lock(t)
  \/ \E t \in Threads : PutObjects_write(t)
  \/ \E t \in Threads : profiler_thread_sleep(t)
  \/ \E t \in Threads : profiler_thread_wake(t)
  \/ \E t \in Threads : MozGlueBaseLabelEnter(t)
  \/ \E t \in Threads : MozGlueBaseLabelExit(t)

\* From the state profiler_init leaves: only the main thread is registered.
SpecSleep == InitFilter /\ [][NextSleep]_vars

(***************************************************************************)
(* Pausing, resuming and streaming the profile; the page registry.         *)
(***************************************************************************)
\* A Pause, Resume, CollectionStart or CollectionEnd entry.
ControlEntry(kind) == [kind |-> kind]

RacyFeatures_SetPaused(word) == word \cup {"Paused"}

\* A SetUnpaused that leaves the bit.
RacyFeatures_SetUnpaused_KeepingBit(word) == word

RacyFeatures_SetUnpaused(word) == word \ {"Paused"}

\* A profiler_pause that does not ask whether ActivePS exists.
profiler_pause_locked_Unchecked(s) ==
  [s EXCEPT !.sActiveAndFeatures = RacyFeatures_SetPaused(@),
            !.active.mIsPaused = TRUE,
            !.buffer = BufferAppend(@, ControlEntry("Pause"))]

\* profiler_pause under the lock.
profiler_pause_locked(s) ==
  IF ~s.activeExists THEN s
  ELSE [s EXCEPT !.sActiveAndFeatures = RacyFeatures_SetPaused(@),
                 !.active.mIsPaused = TRUE,
                 !.buffer = BufferAppend(@, ControlEntry("Pause"))]

\* profiler_resume under the lock.
profiler_resume_locked(s) ==
  IF ~s.activeExists THEN s
  ELSE [s EXCEPT !.buffer = BufferAppend(@, ControlEntry("Resume")),
                 !.active.mIsPaused = FALSE,
                 !.sActiveAndFeatures = RacyFeatures_SetUnpaused(@)]

\* The predicate of DiscardExpiredPages' eraseIf.
IsExpiredPage(page, bufferRangeStart) ==
  page.mBufferPositionWhenUnregistered.v < bufferRangeStart

\* ActivePS::DiscardExpiredPages
DiscardExpiredPages(s) ==
  [s EXCEPT !.active.mDeadProfiledPages =
     SelectSeq(@, LAMBDA d : ~IsExpiredPage(d, s.buffer.rangeStart))]

\* locked_profiler_stream_json_for_this_process: what it leaves of the
\* profiler's state once the profile is written.
locked_profiler_stream_json_for_this_process(s) ==
  LET pages == DiscardExpiredPages(s)
      threads == [pages EXCEPT !.active.mDeadProfiledThreads =
                    DiscardExpiredDeadProfiledThreads(@, s.buffer.rangeStart)]
  IN  [threads EXCEPT !.buffer =
         BufferAppend(BufferAppend(@, ControlEntry("CollectionStart")),
                      ControlEntry("CollectionEnd"))]

\* profiler_stream_json_for_this_process under the lock, called by t.
profiler_stream_json_for_this_process_locked(s, t) ==
  IF ~s.activeExists THEN [s EXCEPT !.returned[t] = "false"]
  ELSE [locked_profiler_stream_json_for_this_process(s) EXCEPT
          !.returned[t] = "true"]

\* Positions of the core buffer that pause, resume and stream may fill.
MaxControlPos == 3

\* A public function that release-asserts CorePS and takes gPSMutex.
CallLocked(t, why, lockLabel) ==
  /\ Running
  /\ pc[t] = "idle"
  /\ IF ~ps.coreExists THEN Abort(why)
     ELSE /\ pc' = [pc EXCEPT ![t] = lockLabel]
          /\ UNCHANGED <<ps, lockOwner, args, hnd, aborted, cs, rf>>

profiler_pause_call(t) ==
  /\ ps.buffer.rangeEnd < MaxControlPos
  /\ CallLocked(t, "profiler_pause: MOZ_RELEASE_ASSERT(CorePS::Exists())",
                "pause_lock")

profiler_pause_body(t) ==
  /\ Running
  /\ pc[t] = "pause_body"
  /\ lockOwner = t
  /\ Return(t, profiler_pause_locked(ps), NullPtr, "idle")

profiler_resume_call(t) ==
  /\ ps.buffer.rangeEnd < MaxControlPos
  /\ CallLocked(t, "profiler_resume: MOZ_RELEASE_ASSERT(CorePS::Exists())",
                "resume_lock")

profiler_resume_body(t) ==
  /\ Running
  /\ pc[t] = "resume_body"
  /\ lockOwner = t
  /\ Return(t, profiler_resume_locked(ps), NullPtr, "idle")

profiler_stream_json_for_this_process_call(t) ==
  /\ ps.buffer.rangeEnd < MaxControlPos
  /\ CallLocked(t, "profiler_stream_json_for_this_process: MOZ_RELEASE_ASSERT(CorePS::Exists())",
                "stream_lock")

profiler_stream_json_for_this_process_body(t) ==
  /\ Running
  /\ pc[t] = "stream_body"
  /\ lockOwner = t
  /\ Return(t, profiler_stream_json_for_this_process_locked(ps, t), NullPtr,
            "idle")

\* Inner window ids and URLs of the pages that register.
PageIds == {1}
PageUrls == {"about:blank", "https://example.org/"}

\* PageInformation objects constructed in one run.
MaxPages == 1

\* PageInformation::Equals
PageEquals(a, b) == a.id = b.id

AppendRegisteredPage_KeepingBlank(pages, aRegisteredPage) ==
  LET hits == {i \in 1..Len(pages) : PageEquals(pages[i], aRegisteredPage)}
      found == CHOOSE k \in hits : \A j \in hits : k <= j
  IN  IF hits = {} THEN Append(pages, aRegisteredPage)
      ELSE IF pages[found].url = "about:blank"
      THEN Append(pages, aRegisteredPage)
      ELSE pages

\* CorePS::AppendRegisteredPage
AppendRegisteredPage(pages, aRegisteredPage) ==
  LET hits == {i \in 1..Len(pages) : PageEquals(pages[i], aRegisteredPage)}
      found == CHOOSE k \in hits : \A j \in hits : k <= j
  IN  IF hits = {} THEN Append(pages, aRegisteredPage)
      ELSE IF pages[found].url = "about:blank"
      THEN Append(SubSeq(pages, 1, found - 1) \o
                    SubSeq(pages, found + 1, Len(pages)),
                  aRegisteredPage)
      ELSE pages

\* profiler_register_page under the lock.
profiler_register_page_locked(s, page) ==
  LET appended == [s EXCEPT !.mRegisteredPages = AppendRegisteredPage(@, page),
                            !.pageRegistrations = @ + 1]
  IN  IF s.activeExists THEN DiscardExpiredPages(appended) ELSE appended

\* profiler_register_page, up to its lock, while fewer than max PageInformation
\* objects were constructed.
profiler_register_page_call_upto(t, id, url, max) ==
  /\ ps.pageRegistrations +
       Cardinality({u \in Threads :
          pc[u] \in {"register_page_lock", "register_page_body"}}) < max
  /\ Running
  /\ pc[t] = "idle"
  /\ IF ~ps.coreExists
     THEN Abort("profiler_register_page: MOZ_RELEASE_ASSERT(CorePS::Exists())")
     ELSE /\ pc' = [pc EXCEPT ![t] = "register_page_lock"]
          /\ args' = [args EXCEPT ![t] =
                        [id |-> id, url |-> url,
                         mBufferPositionWhenUnregistered |-> Nothing]]
          /\ UNCHANGED <<ps, lockOwner, hnd, aborted, cs, rf>>

profiler_register_page_call(t, id, url) ==
  profiler_register_page_call_upto(t, id, url, MaxPages)

profiler_register_page_body(t) ==
  /\ Running
  /\ pc[t] = "register_page_body"
  /\ lockOwner = t
  /\ Return(t, profiler_register_page_locked(ps, args[t]), NullPtr, "idle")

NextControl ==
  \/ \E t \in Threads : Lock(t)
  \/ profiler_start_call(Controller, ParamsPlain)
  \/ profiler_start_body(Controller)
  \/ profiler_stop_call(Controller)
  \/ profiler_stop_body(Controller)
  \/ DeleteSamplerThread(Controller)
  \/ \E s \in Samplers : SamplerThread_Run_begin(s)
  \/ \E s \in Samplers : SamplerThread_Run_iterate(s)
  \/ \E s \in Samplers : SamplerThread_Run_sample(s)
  \/ profiler_pause_call(Controller)
  \/ profiler_pause_body(Controller)
  \/ profiler_resume_call(Controller)
  \/ profiler_resume_body(Controller)
  \/ profiler_stream_json_for_this_process_call(Controller)
  \/ profiler_stream_json_for_this_process_body(Controller)
  \/ \E id \in PageIds, url \in PageUrls :
       profiler_register_page_call(Controller, id, url)
  \/ profiler_register_page_body(Controller)
  \/ racy_profiler_add_marker_call(InitThread)
  \/ PutObjects_lock(InitThread)
  \/ PutObjects_write(InitThread)

\* From the state profiler_init leaves: only the main thread is registered.
SpecControl == InitFilter /\ [][NextControl]_vars

(***************************************************************************)
(* profiler_start with arguments of every kind.  A capacity is a           *)
(* PowerOfTwo32, so a power of two; an interval is a double and a duration *)
(* a Maybe<double>.                                                        *)
(***************************************************************************)
Capacities == {1, 4096, 8192, 16384, 1073741824}
Doubles == {-1, 0, 1, 2, NaN}
ArbitraryParams ==
  {[ParamsPlain EXCEPT !.capacity = c, !.interval = i, !.duration = d] :
     c \in Capacities, i \in Doubles,
     d \in {Nothing} \cup {Some(x) : x \in Doubles}}

NextStartArgs ==
  \/ \E t \in Threads : Lock(t)
  \/ \E p \in ArbitraryParams : profiler_start_call(Controller, p)
  \/ profiler_start_body(Controller)
  \/ profiler_stop_call(Controller)
  \/ profiler_stop_body(Controller)
  \/ DeleteSamplerThread(Controller)
  \/ \E s \in Samplers : SamplerThread_Run_begin(s)
  \/ \E s \in Samplers : SamplerThread_Run_iterate(s)
  \/ \E s \in Samplers : SamplerThread_Run_sample(s)

SpecStartArgs == InitFilter /\ [][NextStartArgs]_vars

\* profiler_start with capacities the clamp of locked_profiler_start leaves
\* as they are: the least one, and 2^16, 2^28, 2^29 and 2^30 entries.
AcceptedCapacities == {8192, 65536, 268435456, 536870912, 1073741824}
CapacityParams ==
  {[ParamsPlain EXCEPT !.capacity = c] : c \in AcceptedCapacities}

NextCapacity ==
  \/ \E t \in Threads : Lock(t)
  \/ \E p \in CapacityParams : profiler_start_call(Controller, p)
  \/ profiler_start_body(Controller)
  \/ profiler_stop_call(Controller)
  \/ profiler_stop_body(Controller)
  \/ DeleteSamplerThread(Controller)
  \/ \E s \in Samplers : SamplerThread_Run_begin(s)
  \/ \E s \in Samplers : SamplerThread_Run_iterate(s)
  \/ \E s \in Samplers : SamplerThread_Run_sample(s)

SpecCapacity == InitFilter /\ [][NextCapacity]_vars

\* profiler_start with each feature alone, with none, with an available and
\* an unavailable one, and with all of them, and with zero, one and two
\* thread filters.
FeatureSets ==
  {{f} : f \in AllFeatures} \cup {{}, {"JS", "Leaf"}, AllFeatures}
FilterCounts ==
  {<<>>, << <<"m","a","i","n">> >>,
   << <<"m","a","i","n">>, <<"w","o","r","k","e","r">> >>}
FeatureParams ==
  {[ParamsPlain EXCEPT !.features = f, !.filters = l] :
     f \in FeatureSets, l \in FilterCounts}

NextFeatures ==
  \/ \E t \in Threads : Lock(t)
  \/ \E p \in FeatureParams : profiler_start_call(Controller, p)
  \/ profiler_start_body(Controller)
  \/ profiler_stop_call(Controller)
  \/ profiler_stop_body(Controller)
  \/ DeleteSamplerThread(Controller)
  \/ \E s \in Samplers : SamplerThread_Run_begin(s)
  \/ \E s \in Samplers : SamplerThread_Run_iterate(s)
  \/ \E s \in Samplers : SamplerThread_Run_sample(s)

SpecFeatures == InitFilter /\ [][NextFeatures]_vars

(***************************************************************************)
(* The page registry on its own: registration, unregistration and clearing *)
(* of pages, with and without an ActivePS.                                 *)
(***************************************************************************)

\* Inner window ids of the pages, and the PageInformation objects one run
\* constructs.
InnerWindowIds == {1, 2}
MaxPageCalls == 3

\* CorePS::RemoveRegisteredPage
RemoveRegisteredPage(s, aRegisteredInnerWindowID) ==
  [s EXCEPT !.mRegisteredPages =
     SelectSeq(@, LAMBDA rd : rd.id # aRegisteredInnerWindowID)]

\* An UnregisterPage that stamps the page with the buffer's range start.
UnregisterPage_StampedWithRangeStart(s, aRegisteredInnerWindowID) ==
  LET gone == SelectSeq(s.mRegisteredPages,
                        LAMBDA rd : rd.id = aRegisteredInnerWindowID)
      dead == [i \in 1..Len(gone) |->
                 NotifyUnregistered(gone[i], s.buffer.rangeStart)]
  IN  [s EXCEPT !.active.mDeadProfiledPages = @ \o dead,
                !.mRegisteredPages =
                   SelectSeq(@, LAMBDA rd : rd.id # aRegisteredInnerWindowID)]

\* ActivePS::UnregisterPage
UnregisterPage(s, aRegisteredInnerWindowID) ==
  LET gone == SelectSeq(s.mRegisteredPages,
                        LAMBDA rd : rd.id = aRegisteredInnerWindowID)
      dead == [i \in 1..Len(gone) |->
                 NotifyUnregistered(gone[i], s.buffer.rangeEnd)]
  IN  [s EXCEPT !.active.mDeadProfiledPages = @ \o dead,
                !.mRegisteredPages =
                   SelectSeq(@, LAMBDA rd : rd.id # aRegisteredInnerWindowID)]

\* profiler_unregister_page under the lock.
profiler_unregister_page_locked(s, aRegisteredInnerWindowID) ==
  IF s.activeExists THEN UnregisterPage(s, aRegisteredInnerWindowID)
  ELSE RemoveRegisteredPage(s, aRegisteredInnerWindowID)

\* CorePS::ClearRegisteredPages
ClearRegisteredPages(s) == [s EXCEPT !.mRegisteredPages = <<>>]

\* ActivePS::ClearUnregisteredPages
ClearUnregisteredPages(s) == [s EXCEPT !.active.mDeadProfiledPages = <<>>]

\* profiler_clear_all_pages under the lock.
profiler_clear_all_pages_locked(s) ==
  LET cleared == ClearRegisteredPages(s)
  IN  IF s.activeExists THEN ClearUnregisteredPages(cleared) ELSE cleared

\* profiler_unregister_page returns at once when there is no CorePS.
profiler_unregister_page_call(t, id) ==
  /\ Running
  /\ pc[t] = "idle"
  /\ ps.mRegisteredPages # <<>>
  /\ IF ~ps.coreExists
     THEN UNCHANGED vars
     ELSE /\ pc' = [pc EXCEPT ![t] = "unregister_page_lock"]
          /\ args' = [args EXCEPT ![t] = [aRegisteredInnerWindowID |-> id]]
          /\ UNCHANGED <<ps, lockOwner, hnd, aborted, cs, rf>>

profiler_unregister_page_body(t) ==
  /\ Running
  /\ pc[t] = "unregister_page_body"
  /\ lockOwner = t
  /\ Return(t, profiler_unregister_page_locked(
                  ps, args[t].aRegisteredInnerWindowID), NullPtr, "idle")

\* profiler_clear_all_pages returns at once when there is no CorePS.
profiler_clear_all_pages_call(t) ==
  /\ Running
  /\ pc[t] = "idle"
  /\ ps.mRegisteredPages # <<>>
  /\ IF ~ps.coreExists
     THEN UNCHANGED vars
     ELSE /\ pc' = [pc EXCEPT ![t] = "clear_pages_lock"]
          /\ UNCHANGED <<ps, lockOwner, args, hnd, aborted, cs, rf>>

profiler_clear_all_pages_body(t) ==
  /\ Running
  /\ pc[t] = "clear_pages_body"
  /\ lockOwner = t
  /\ Return(t, profiler_clear_all_pages_locked(ps), NullPtr, "idle")

\* The profiler is initialised, and either inactive or sampling.
InitPages ==
  /\ ps \in {InitializedPS, SamplingPS}
  /\ lockOwner = NoThread
  /\ pc = [t \in Threads |-> "idle"]
  /\ args = [t \in Threads |-> NoArgs]
  /\ hnd = [t \in Threads |-> NullPtr]
  /\ aborted = "no"
  /\ cs = NoSample
  /\ rf = NewRootFront

NextPages ==
  \/ \E t \in Threads : Lock(t)
  \/ \E t \in Threads, id \in InnerWindowIds, url \in PageUrls :
       profiler_register_page_call_upto(t, id, url, MaxPageCalls)
  \/ \E t \in Threads : profiler_register_page_body(t)
  \/ \E t \in Threads, id \in InnerWindowIds :
       profiler_unregister_page_call(t, id)
  \/ \E t \in Threads : profiler_unregister_page_body(t)
  \/ \E t \in Threads : profiler_clear_all_pages_call(t)
  \/ \E t \in Threads : profiler_clear_all_pages_body(t)

SpecPages == InitPages /\ [][NextPages]_vars

\* Pages are registered, unregistered and cleared by one thread, which may
\* stop the profiler, while the other thread's markers and the sampler's
\* samples move the buffer's range.
NextPageLife ==
  \/ \E t \in Threads : Lock(t)
  \/ \E id \in InnerWindowIds :
       profiler_register_page_call_upto(Controller, id, "https://example.org/",
                                        MaxPageCalls)
  \/ profiler_register_page_body(Controller)
  \/ \E id \in InnerWindowIds : profiler_unregister_page_call(Controller, id)
  \/ profiler_unregister_page_body(Controller)
  \/ profiler_clear_all_pages_call(Controller)
  \/ profiler_clear_all_pages_body(Controller)
  \/ profiler_stop_call(Controller)
  \/ profiler_stop_body(Controller)
  \/ DeleteSamplerThread(Controller)
  \/ racy_profiler_add_marker_call(InitThread)
  \/ PutObjects_lock(InitThread)
  \/ PutObjects_write(InitThread)
  \/ \E s \in Samplers : SamplerThread_Run_iterate(s)
  \/ \E s \in Samplers : SamplerThread_Run_sample(s)

SpecPageLife == InitPages /\ [][NextPageLife]_vars

(***************************************************************************)
(* Pausing and resuming the profiler while the sampler thread iterates,    *)
(* step by step, exit profiles arrive and a thread inserts markers.        *)
(***************************************************************************)
\* Exit profiles ActivePS may hold.
MaxExitProfiles == 1

\* The iteration of a paused profiler ends: the sampler releases gPSMutex
\* and sleeps.
SamplerThread_Run_paused(s) ==
  /\ Running
  /\ s <= Len(ps.samplers)
  /\ ps.samplers[s].state = "sampling"
  /\ lockOwner = -s
  /\ ~SamplesThisIteration(ps.active)
  /\ ps' = [ps EXCEPT !.samplers[s].state = "loop"]
  /\ lockOwner' = NoThread
  /\ UNCHANGED <<pc, args, hnd, aborted, cs, rf>>

\* profiler_received_exit_profile under the lock.
profiler_received_exit_profile_locked(s, aExitProfile) ==
  IF ~s.activeExists THEN s ELSE AddExitProfile(s, aExitProfile)

\* profiler_received_exit_profile(aExitProfile), up to its lock, while
\* ActivePS holds fewer than max exit profiles.
profiler_received_exit_profile_call_upto(t, aExitProfile, max) ==
  /\ Len(ps.active.mExitProfiles) < max
  /\ Running
  /\ pc[t] = "idle"
  /\ IF ~ps.coreExists
     THEN Abort("profiler_received_exit_profile: MOZ_RELEASE_ASSERT(CorePS::Exists())")
     ELSE /\ pc' = [pc EXCEPT ![t] = "exit_profile_lock"]
          /\ args' = [args EXCEPT ![t] = [aExitProfile |-> aExitProfile]]
          /\ UNCHANGED <<ps, lockOwner, hnd, aborted, cs, rf>>

profiler_received_exit_profile_call(t) ==
  profiler_received_exit_profile_call_upto(t, "{}", MaxExitProfiles)

profiler_received_exit_profile_body(t) ==
  /\ Running
  /\ pc[t] = "exit_profile_body"
  /\ lockOwner = t
  /\ Return(t, profiler_received_exit_profile_locked(ps, args[t].aExitProfile),
            NullPtr, "idle")

NextPaused ==
  \/ \E t \in Threads \ Suspended : Lock(t)
  \/ \E t \in {Controller} \ Suspended : profiler_pause_call(t)
  \/ \E t \in {Controller} \ Suspended : profiler_pause_body(t)
  \/ \E t \in {Controller} \ Suspended : profiler_resume_call(t)
  \/ \E t \in {Controller} \ Suspended : profiler_resume_body(t)
  \/ \E t \in {Controller} \ Suspended :
       profiler_received_exit_profile_call(t)
  \/ \E t \in {Controller} \ Suspended :
       profiler_received_exit_profile_body(t)
  \/ \E t \in {Controller} \ Suspended : profiler_stop_call(t)
  \/ \E t \in {Controller} \ Suspended : profiler_stop_body(t)
  \/ \E t \in {Controller} \ Suspended : DeleteSamplerThread(t)
  \/ \E t \in {InitThread} \ Suspended : racy_profiler_add_marker_call(t)
  \/ \E t \in {InitThread} \ Suspended : PutObjects_lock(t)
  \/ \E t \in {InitThread} \ Suspended : PutObjects_write(t)
  \/ \E s \in Samplers : SamplerThread_Run_iterate_stepwise(s)
  \/ \E s \in Samplers : SamplerThread_Run_paused(s)
  \/ \E s \in Samplers : Sample_AddThreadIdEntry(s)
  \/ \E s \in Samplers : Sample_AddTimeEntry(s)
  \/ \E s \in Samplers : Sample_Suspend(s)
  \/ \E s \in Samplers : Sample_DoPeriodicSample(s)
  \/ \E s \in Samplers : Sample_Resume(s)
  \/ \E s \in Samplers : Sample_AppendContents(s)

SpecPaused == InitSuspend /\ [][NextPaused]_vars

(***************************************************************************)
(* Exit profiles: JSON of other processes arrives and is moved out while   *)
(* samples and markers move the buffer's range and the profiler stops.     *)
(***************************************************************************)
\* Exit profiles ActivePS may hold at once, and the JSON they carry.
MaxExitReceived == 2
ExitProfileJSONs == {"{a}", "{b}"}

\* A MoveExitProfiles that hands out the profiles and keeps them.
MoveExitProfiles_KeepingThem(s) == ClearExpiredExitProfiles(s)

\* ActivePS::MoveExitProfiles: ActivePS after the call.
MoveExitProfiles(s) ==
  [ClearExpiredExitProfiles(s) EXCEPT !.active.mExitProfiles = <<>>]

\* ActivePS::MoveExitProfiles: the vector it returns.
MovedExitProfiles(s) ==
  LET kept == ClearExpiredExitProfiles(s).active.mExitProfiles
  IN  [i \in 1..Len(kept) |-> kept[i].mJSON]

\* profiler_move_exit_profiles under the lock.
profiler_move_exit_profiles_locked(s) ==
  IF s.activeExists
  THEN [MoveExitProfiles(s) EXCEPT !.movedProfiles = MovedExitProfiles(s)]
  ELSE [s EXCEPT !.movedProfiles = <<>>]

profiler_move_exit_profiles_call(t) ==
  CallLocked(t, "profiler_move_exit_profiles: MOZ_RELEASE_ASSERT(CorePS::Exists())",
             "move_exit_lock")

profiler_move_exit_profiles_body(t) ==
  /\ Running
  /\ pc[t] = "move_exit_body"
  /\ lockOwner = t
  /\ Return(t, profiler_move_exit_profiles_locked(ps), NullPtr, "idle")

NextExit ==
  \/ \E t \in Threads : Lock(t)
  \/ \E json \in ExitProfileJSONs :
       profiler_received_exit_profile_call_upto(Controller, json,
                                                MaxExitReceived)
  \/ profiler_received_exit_profile_body(Controller)
  \/ profiler_move_exit_profiles_call(Controller)
  \/ profiler_move_exit_profiles_body(Controller)
  \/ profiler_stop_call(Controller)
  \/ profiler_stop_body(Controller)
  \/ DeleteSamplerThread(Controller)
  \/ racy_profiler_add_marker_call(InitThread)
  \/ PutObjects_lock(InitThread)
  \/ PutObjects_write(InitThread)
  \/ \E s \in Samplers : SamplerThread_Run_iterate(s)
  \/ \E s \in Samplers : SamplerThread_Run_sample(s)

SpecExit == InitSuspend /\ [][NextExit]_vars

(***************************************************************************)
(* The ring buffers under every operation on them: entries and markers are *)
(* appended, the sampler's local buffer is filled, copied into the core    *)
(* buffer and cleared, and a profile streamed from a profiler with a       *)
(* window length discards the samples older than the window.               *)
(***************************************************************************)
\* ProfileBuffer::DiscardSamplesBeforeTime, `older` blocks being older than
\* the cutoff.
DiscardSamplesBeforeTime(b, older) ==
  [b EXCEPT !.entries = SubSeq(@, older + 1, Len(@)),
            !.rangeStart = @ + older]

\* locked_profiler_stream_json_for_this_process: `If there is a set "Window
\* length", discard older data`, then the rest of the function.
locked_profiler_stream_json_for_this_process_window(s, older) ==
  locked_profiler_stream_json_for_this_process(
    IF s.active.mDuration.some
    THEN [s EXCEPT !.buffer = DiscardSamplesBeforeTime(@, older)]
    ELSE s)

profiler_stream_json_for_this_process_call_upto(t, max) ==
  /\ ps.buffer.rangeEnd < max
  /\ CallLocked(t, "profiler_stream_json_for_this_process: MOZ_RELEASE_ASSERT(CorePS::Exists())",
                "stream_lock")

profiler_stream_json_for_this_process_body_window(t, older) ==
  /\ Running
  /\ pc[t] = "stream_body"
  /\ lockOwner = t
  /\ older <= Len(ps.buffer.entries)
  /\ Return(t, IF ~ps.activeExists THEN [ps EXCEPT !.returned[t] = "false"]
               ELSE [locked_profiler_stream_json_for_this_process_window(
                       ps, older) EXCEPT !.returned[t] = "true"],
            NullPtr, "idle")

\* The process of SamplingPS, started with a window length of one second.
SamplingWindowPS ==
  LET core == CorePS_Create(InitPS([hi |-> 0, lo |-> 0]), InitThread)
      main == locked_register_thread(core, InitThread)
      both == locked_register_thread(main, 2)
      started == locked_profiler_start(both, [ParamsPlain EXCEPT
                                                !.duration = Some(1)])
  IN  [started EXCEPT !.samplers[1].state = "loop"]

InitRing ==
  /\ ps = SamplingWindowPS
  /\ lockOwner = NoThread
  /\ pc = [t \in Threads |-> "idle"]
  /\ args = [t \in Threads |-> NoArgs]
  /\ hnd = [t \in Threads |-> NullPtr]
  /\ aborted = "no"
  /\ cs = NoSample
  /\ rf = NewRootFront

NextRing ==
  \/ \E t \in Threads \ Suspended : Lock(t)
  \/ \E t \in {Controller} \ Suspended :
       profiler_stream_json_for_this_process_call_upto(t, MaxStepPos)
  \/ \E t \in {Controller} \ Suspended, older \in 0..RingLen :
       profiler_stream_json_for_this_process_body_window(t, older)
  \/ \E t \in {InitThread} \ Suspended : racy_profiler_add_marker_call(t)
  \/ \E t \in {InitThread} \ Suspended : PutObjects_lock(t)
  \/ \E t \in {InitThread} \ Suspended : PutObjects_write(t)
  \/ \E s \in Samplers : SamplerThread_Run_iterate_stepwise(s)
  \/ \E s \in Samplers : Sample_AddThreadIdEntry(s)
  \/ \E s \in Samplers : Sample_AddTimeEntry(s)
  \/ \E s \in Samplers : Sample_Suspend(s)
  \/ \E s \in Samplers : Sample_DoPeriodicSample(s)
  \/ \E s \in Samplers : Sample_Resume(s)
  \/ \E s \in Samplers : Sample_AppendContents(s)

SpecRing == InitRing /\ [][NextRing]_vars

(***************************************************************************)
(* MergeStacks.  A profiling-stack frame is its kind and its stack address *)
(* (a JS_OSR frame has none); a native frame is its index in mPCs / mSPs.  *)
(* Addresses are positive; NullPtr is the null address.                    *)
(***************************************************************************)
\* Frames a profiling stack may hold, frames a native stack may hold, and the
\* highest stack address.
MaxProfilingFrames == 3
MaxNativeFrames == 2
MaxAddr == 3

\* A merger that sees no tie: it emits the native frame that has the stack
\* address of a profiling-stack frame as well.
IsTie_Never(profilingStackAddr, nativeStackAddr) == FALSE

\* `nativeStackAddr && (profilingStackAddr == nativeStackAddr)`
IsTie(profilingStackAddr, nativeStackAddr) ==
  nativeStackAddr # NullPtr /\ profilingStackAddr = nativeStackAddr

\* A merger that records SP marker frames like label frames.
IsRecorded_SpMarkerToo(frame) == TRUE

\* `!profilingStackFrame.isSpMarkerFrame()`
IsRecorded(frame) == frame.kind # "SpMarker"

\* A merger that emits the candidate with the lower stack address first.
ProfilingFrameIsOlder_Lower(profilingStackAddr, nativeStackAddr) ==
  nativeStackAddr = NullPtr \/ profilingStackAddr < nativeStackAddr

\* A merger that never finds the profiling-stack frame the older one.
ProfilingFrameIsOlder_Never(profilingStackAddr, nativeStackAddr) == FALSE

\* `profilingStackAddr > nativeStackAddr`
ProfilingFrameIsOlder(profilingStackAddr, nativeStackAddr) ==
  profilingStackAddr > nativeStackAddr

CollectProfilingStackFrame(collected, m) ==
  Append(collected,
         [from |-> "profiling", index |-> m.profilingStackIndex,
          kind |-> m.frames[m.profilingStackIndex + 1].kind,
          sp |-> m.frames[m.profilingStackIndex + 1].sp])
CollectNativeLeafAddr(collected, m, nativeIndex) ==
  Append(collected,
         [from |-> "native", index |-> nativeIndex, kind |-> "Native",
          sp |-> m.mSPs[nativeIndex + 1]])

\* The loop condition of MergeStacks.
MergeStacks_FramesRemain(m) ==
  m.profilingStackIndex # Len(m.frames) \/ m.nativeIndex >= 0

\* One iteration of the loop of MergeStacks.
MergeStacks_iteration(m) ==
  LET hasFrame == m.profilingStackIndex # Len(m.frames)
      frame == m.frames[m.profilingStackIndex + 1]
      last == IF hasFrame /\ frame.kind \in {"Label", "SpMarker"}
              THEN frame.sp ELSE m.lastLabelFrameStackAddr
      seen == [m EXCEPT !.lastLabelFrameStackAddr = last,
                        !.iterations = @ + 1]
  IN  IF hasFrame /\ frame.kind = "JsOsr"
      THEN [seen EXCEPT !.profilingStackIndex = @ + 1]
      ELSE
        LET profilingStackAddr == IF hasFrame THEN last ELSE NullPtr
            oldestNative == IF m.nativeIndex >= 0
                            THEN m.mSPs[m.nativeIndex + 1] ELSE NullPtr
            tie == IsTie(profilingStackAddr, oldestNative)
            nativeStackAddr == IF tie THEN NullPtr ELSE oldestNative
            nativeIndex == IF tie THEN m.nativeIndex - 1 ELSE m.nativeIndex
        IN  IF ProfilingFrameIsOlder(profilingStackAddr, nativeStackAddr)
            THEN [seen EXCEPT
                   !.collected = IF IsRecorded(frame)
                                 THEN CollectProfilingStackFrame(@, m) ELSE @,
                   !.profilingStackIndex = @ + 1,
                   !.nativeIndex = nativeIndex]
            ELSE [seen EXCEPT
                   !.collected = IF nativeStackAddr # NullPtr
                                 THEN CollectNativeLeafAddr(@, m, nativeIndex)
                                 ELSE @,
                   !.nativeIndex = IF nativeIndex >= 0 THEN nativeIndex - 1
                                   ELSE nativeIndex]

\* MergeStacks runs one iteration of its loop.
MergeStacks_iterate ==
  /\ Running
  /\ MergeStacks_FramesRemain(cs.merge)
  /\ cs' = [cs EXCEPT !.merge = MergeStacks_iteration(@)]
  /\ UNCHANGED <<ps, lockOwner, pc, args, hnd, aborted, rf>>

Addrs == 1..MaxAddr
ProfilingStackFrames ==
  {[kind |-> k, sp |-> a] : k \in {"Label", "SpMarker"}, a \in Addrs}
    \cup {[kind |-> "JsOsr", sp |-> NullPtr]}
ProfilingStacks ==
  UNION {[1..n -> ProfilingStackFrames] : n \in 0..MaxProfilingFrames}
NativeStacks == UNION {[1..n -> Addrs] : n \in 0..MaxNativeFrames}

\* MergeStacks is entered, inside a sample, with some profiling stack and
\* some native stack.
InitMerge ==
  /\ ps = SamplingPS
  /\ lockOwner = NoThread
  /\ pc = [t \in Threads |-> "idle"]
  /\ args = [t \in Threads |-> NoArgs]
  /\ hnd = [t \in Threads |-> NullPtr]
  /\ aborted = "no"
  /\ \E frames \in ProfilingStacks, mSPs \in NativeStacks :
       cs = [NoSample EXCEPT !.merge = MergeStart(frames, mSPs)]
  /\ rf = NewRootFront

NextMerge == MergeStacks_iterate

SpecMerge == InitMerge /\ [][NextMerge]_vars

(***************************************************************************)
(* Scheduling.  A thread that can take a step of the function it is in     *)
(* eventually takes it; a thread or sampler that waits for gPSMutex gets   *)
(* it if the mutex is free again and again.  Whether the application       *)
(* calls a public function is left open.                                   *)
(***************************************************************************)
\* Whoever holds gPSMutex runs to the end of its locked section, unless it
\* is the thread that blocked on the mutex it holds itself: the lock is free
\* again and again, or its holder is blocked for ever.  (This is weak
\* fairness of the lock holder's step, with its enabling condition written
\* out.)
HolderBlocked == \E t \in Threads : lockOwner = t /\ pc[t] = "deadlocked"
LockHolderProgress == []<>(lockOwner = NoThread \/ HolderBlocked)

\* The two places where SamplerThread::Run takes gPSMutex.
SamplerLockStep(s) ==
  SamplerThread_Run_begin(s) \/ SamplerThread_Run_iterate(s)

FairSpec ==
  /\ Spec
  /\ LockHolderProgress
  /\ \A t \in Threads : SF_vars(Lock(t)) /\ WF_vars(DeleteSamplerThread(t))
  /\ \A s \in Samplers : SF_vars(SamplerLockStep(s))

(***************************************************************************)
(* The profiler is shut down and initialised again by the main thread      *)
(* while the other thread registers and unregisters.                       *)
(***************************************************************************)
\* RegisteredThread objects constructed in one run: the main thread's of
\* each profiler_init and the other thread's.
MaxReinitRegs == 3

NextReinit ==
  \/ \E t \in Threads : Lock(t)
  \/ profiler_init_call_upto(InitThread, MaxReinitRegs)
  \/ profiler_init_body(InitThread, FALSE)
  \/ profiler_shutdown_call(InitThread)
  \/ profiler_shutdown_body(InitThread)
  \/ profiler_register_thread_call_upto(Controller, MaxReinitRegs)
  \/ profiler_register_thread_body(Controller)
  \/ \E t \in Threads : profiler_unregister_thread_call(t)
  \/ \E t \in Threads : profiler_unregister_thread_body(t)

SpecReinit == Init /\ [][NextReinit]_vars

(***************************************************************************)
(* RacyFeatures::sActiveAndFeatures is read without gPSMutex, so the order *)
(* of the writes inside one locked section is visible: start, stop, pause  *)
(* and resume with the write of the word as a step of its own.             *)
(***************************************************************************)
\* locked_profiler_stop: `At the very start, clear RacyFeatures`.  The rest
\* of profiler_stop follows in profiler_stop_body.
locked_profiler_stop_SetInactive(t) ==
  /\ Running
  /\ pc[t] = "stop_body"
  /\ lockOwner = t
  /\ ps.activeExists /\ ps.coreExists
  /\ ps.sActiveAndFeatures # RacyFeatures_SetInactive
  /\ ps' = [ps EXCEPT !.sActiveAndFeatures = RacyFeatures_SetInactive]
  /\ UNCHANGED <<lockOwner, pc, args, hnd, aborted, cs, rf>>

\* profiler_start under the lock, up to the last statement of
\* locked_profiler_start.
profiler_start_body_unpublished(t) ==
  /\ Running
  /\ pc[t] = "start_body"
  /\ lockOwner = t
  /\ ps.coreExists
  /\ LET stopped == IF ps.activeExists THEN locked_profiler_stop(ps) ELSE ps
     IN  IF ~CanStart(stopped)
         THEN Abort("locked_profiler_start: MOZ_RELEASE_ASSERT(CorePS::Exists() && !ActivePS::Exists(aLock))")
         ELSE /\ ps' = locked_profiler_start_unpublished(stopped, args[t])
              /\ hnd' = [hnd EXCEPT ![t] =
                           IF ps.activeExists THEN ps.active.mSamplerThread
                           ELSE NullPtr]
              /\ pc' = [pc EXCEPT ![t] = "start_publish"]
              /\ UNCHANGED <<lockOwner, args, aborted, cs, rf>>

\* `RacyFeatures::SetActive(ActivePS::Features(aLock))`, and the lock is
\* released.
profiler_start_body_SetActive(t) ==
  /\ Running
  /\ pc[t] = "start_publish"
  /\ lockOwner = t
  /\ Return(t, [ps EXCEPT !.sActiveAndFeatures =
                            RacyFeatures_SetActive(ps.active.mFeatures)],
            hnd[t], "start_join")

\* profiler_pause: `RacyFeatures::SetPaused()`.  The rest follows in
\* profiler_pause_body.
profiler_pause_body_SetPaused(t) ==
  /\ Running
  /\ pc[t] = "pause_body"
  /\ lockOwner = t
  /\ ps.activeExists
  /\ "Paused" \notin ps.sActiveAndFeatures
  /\ ps' = [ps EXCEPT !.sActiveAndFeatures = RacyFeatures_SetPaused(@)]
  /\ UNCHANGED <<lockOwner, pc, args, hnd, aborted, cs, rf>>

\* profiler_resume under the lock, up to `RacyFeatures::SetUnpaused()`.
profiler_resume_body_SetIsPaused(t) ==
  /\ Running
  /\ pc[t] = "resume_body"
  /\ lockOwner = t
  /\ ps' = IF ~ps.activeExists THEN ps
           ELSE [ps EXCEPT !.buffer = BufferAppend(@, ControlEntry("Resume")),
                           !.active.mIsPaused = FALSE]
  /\ pc' = [pc EXCEPT ![t] = "resume_unpause"]
  /\ UNCHANGED <<lockOwner, args, hnd, aborted, cs, rf>>

\* `RacyFeatures::SetUnpaused()`, and the lock is released.
profiler_resume_body_SetUnpaused(t) ==
  /\ Running
  /\ pc[t] = "resume_unpause"
  /\ lockOwner = t
  /\ Return(t, IF ~ps.activeExists THEN ps
               ELSE [ps EXCEPT !.sActiveAndFeatures =
                                 RacyFeatures_SetUnpaused(@)],
            NullPtr, "idle")

NextRacy ==
  \/ \E t \in Threads : Lock(t)
  \/ profiler_start_call(Controller, ParamsPlain)
  \/ profiler_start_body_unpublished(Controller)
  \/ profiler_start_body_SetActive(Controller)
  \/ profiler_stop_call(Controller)
  \/ locked_profiler_stop_SetInactive(Controller)
  \/ profiler_stop_body(Controller)
  \/ DeleteSamplerThread(Controller)
  \/ profiler_pause_call(InitThread)
  \/ profiler_pause_body_SetPaused(InitThread)
  \/ profiler_pause_body(InitThread)
  \/ profiler_resume_call(InitThread)
  \/ profiler_resume_body_SetIsPaused(InitThread)
  \/ profiler_resume_body_SetUnpaused(InitThread)
  \/ \E s \in Samplers : SamplerThread_Run_begin(s)
  \/ \E s \in Samplers : SamplerThread_Run_iterate(s)
  \/ \E s \in Samplers : SamplerThread_Run_sample(s)

SpecRacy == InitFilter /\ [][NextRacy]_vars

(***************************************************************************)
(* The devtools client calls RootFront.getFront while the reply to getRoot *)
(* is on its way.                                                          *)
(***************************************************************************)
NextRootFront ==
  \/ \E typeName \in TypeNames : RootFront_getFront_call(typeName)
  \/ RootFront_getRoot_reply
  \/ \E c \in 1..MaxGetFrontCalls : RootFront_getFront_resume(c)

SpecRootFront == Init /\ [][NextRootFront]_vars

(***************************************************************************)
(* Properties.                                                             *)
(***************************************************************************)
BufferEntries == {ps.buffer.entries[i] : i \in 1..Len(ps.buffer.entries)}
SamplerIds == 1..Len(ps.samplers)

\* C1: at every instant at most one ActivePS object exists, it exists
\* exactly when ActivePS::sInstance is set, and the MOZ_ASSERT(!sInstance) of
\* ActivePS::Create has never failed; a profiler_start that returns from its
\* locked section leaves exactly one ActivePS, the one it created.
C1_OneActivePS ==
  /\ ps.activeObjects <= 1
  /\ ps.activeExists <=> ps.activeObjects = 1
  /\ ps.failedAssertions = {}
C1_StartLeavesItsOwn ==
  \A t \in Threads :
    pc[t] = "start_body" /\ pc'[t] \in {"idle", "start_join"} =>
      /\ ps'.activeObjects = 1
      /\ ps'.active.requested = args[t]
      /\ ps'.active.mGeneration = ps.sNextGeneration
C1_AtMostOneActivePS == []C1_OneActivePS /\ [][C1_StartLeavesItsOwn]_vars
\* A second profiler_start has replaced the ActivePS the first one created,
\* and waits to delete the first one's sampler.
C1_Witness ==
  \E t \in Threads :
    /\ pc[t] = "start_join"
    /\ Len(ps.generations) = 2
    /\ ps.active.mSamplerThread = 2
    /\ hnd[t] = 1
    /\ ps.activeObjects = 1

\* C2: a sampler is past the checks of its loop only while the ActivePS of
\* its own generation exists, and every sample in the buffer was written by
\* the sampler of the generation that owns the buffer.
C2_SamplesOnlyOwnGeneration ==
  /\ \A s \in SamplerIds :
       ps.samplers[s].state = "sampling" =>
         /\ ps.activeExists
         /\ ps.active.mGeneration = ps.samplers[s].mActivityGeneration
  /\ \A e \in BufferEntries : e.by = e.gen /\ e.gen = ps.active.mGeneration
\* After stop and start, the old sampler has returned from Run while the new
\* session is active and its own sampler has written a sample.
C2_Witness ==
  \E t \in Threads :
    /\ pc[t] \in JoinPcs
    /\ ps.samplers[hnd[t]].state = "exited"
    /\ ps.activeExists
    /\ ps.active.mGeneration # ps.samplers[hnd[t]].mActivityGeneration
    /\ ps.buffer.entries # <<>>

\* C3: under fair scheduling a profiler_stop that has released the lock and
\* deletes its SamplerThread returns: the join completes.
C3_StopReturns ==
  \A t \in Threads : (pc[t] = "stop_join") ~> (pc[t] # "stop_join")

\* C4 (as stated): every ActivePS has a generation strictly greater than the
\* generation of every ActivePS created before it.
C4_GenerationsStrictlyIncrease ==
  \A i, j \in 1..Len(ps.generations) :
    i < j => U32Less(ps.generations[i].gen, ps.generations[j].gen)
\* C4 (amended): each ActivePS has the generation of the one created before
\* it plus one modulo 2^32; it is strictly greater than every earlier one
\* unless the counter has passed 0xFFFFFFFF in between.
MaxU32 == [hi |-> HalfWordMod - 1, lo |-> HalfWordMod - 1]
C4_GenerationsCountModulo ==
  /\ \A i \in 1..(Len(ps.generations) - 1) :
       ps.generations[i + 1].gen = U32Inc(ps.generations[i].gen)
  /\ ps.activeExists =>
       ps.active.mGeneration = ps.generations[Len(ps.generations)].gen
  /\ \A i, j \in 1..Len(ps.generations) :
       i < j =>
         \/ U32Less(ps.generations[i].gen, ps.generations[j].gen)
         \/ \E k \in i..(j - 1) : ps.generations[k].gen = MaxU32
\* The second ActivePS created after the counter reached 0xFFFFFFFF has
\* generation 0.
C4_Witness ==
  /\ Len(ps.generations) = 2
  /\ ps.generations[1].gen = MaxU32
  /\ ps.activeExists
  /\ ps.active.mGeneration = [hi |-> 0, lo |-> 0]

\* C5 (as stated): while an ActivePS started with features F exists,
\* is_active() is true and is_active_with_feature(f) is true exactly for the
\* f in F; while none exists both are false.
FeaturesReadAs(expected) ==
  IF ps.activeExists
  THEN /\ RacyFeatures_IsActive(ps.sActiveAndFeatures)
       /\ \A f \in AllFeatures :
            RacyFeatures_IsActiveWithFeature(ps.sActiveAndFeatures, f)
              <=> f \in expected
  ELSE /\ ~RacyFeatures_IsActive(ps.sActiveAndFeatures)
       /\ \A f \in AllFeatures :
            ~RacyFeatures_IsActiveWithFeature(ps.sActiveAndFeatures, f)
C5_FeaturesAsRequested == FeaturesReadAs(ps.active.requested.features)
\* C5 (amended): is_active_with_feature(f) is true exactly for the available
\* features of F, and for Threads when the filter list is not empty.
C5_FeaturesAsAdjusted ==
  FeaturesReadAs((ps.active.requested.features \cap AvailableFeatures)
                   \cup (IF ps.active.requested.filters # <<>>
                         THEN {"Threads"} ELSE {}))
\* profiler_start with a filter, an unavailable feature and no Threads
\* feature has returned from its locked section.
C5_Witness ==
  /\ ps.activeExists
  /\ lockOwner = NoThread
  /\ ps.active.requested = ParamsFiltered
  /\ ps.sActiveAndFeatures = {"Active", "Leaf", "Threads"}

\* C7: no thread reaches a PSAutoLock while it holds gPSMutex.
C7_NoLockWhileHolding ==
  \A t \in Threads : ~(pc[t] \in LockPcs /\ lockOwner = t)

RegisteredRids == {r.rid : r \in Range(ps.mRegisteredThreads)}
LiveRids == {l.mRegisteredThread : l \in Range(ps.active.mLiveProfiledThreads)}
DeadThreads == Range(ps.active.mDeadProfiledThreads)
DeadRids == {d.rid : d \in DeadThreads}

\* C8 (as stated): for as long as the buffer holds a sample of a thread, the
\* thread's RegisteredThread has not been destroyed.
C8_RecordOutlivesSamples ==
  \A e \in BufferEntries : e.rid \in RegisteredRids
\* C8 (amended): a RegisteredThread exists exactly from its thread's
\* registration to its unregistration (or profiler_shutdown); for as long as
\* the buffer holds a sample of a thread, the ActivePS holds the thread's
\* ProfiledThreadData, in the live list while the thread is registered and
\* in the dead list afterwards.
C8_ProfiledThreadDataOutlivesSamples ==
  /\ LiveRids \subseteq RegisteredRids
  /\ LiveRids \cap DeadRids = {}
  /\ \A t \in Threads :
       FindCurrentThreadRegisteredThread(ps, t) # NullPtr =>
         ps.tls[t] = FindCurrentThreadRegisteredThread(ps, t)
  /\ \A e \in BufferEntries :
       IF e.rid \in RegisteredRids THEN e.rid \in LiveRids
       ELSE e.rid \in DeadRids
\* A sampled thread has unregistered: its RegisteredThread is gone, its
\* sample is still in the buffer and its ProfiledThreadData is in the dead
\* list.
C8_Witness ==
  \E e \in BufferEntries :
    /\ e.rid \notin RegisteredRids
    /\ e.rid \in DeadRids
    /\ ps.tls[e.tid] = NullPtr

\* C9: every dead ProfiledThreadData carries a stamp; unregistering a
\* profiled thread moves its ProfiledThreadData from the live list to the
\* dead list stamped with rangeEnd; the discard that precedes it removes
\* exactly the dead entries stamped below rangeStart; and no step within one
\* ActivePS drops a dead entry stamped at or above rangeStart.
C9_DeadStamped ==
  \A d \in DeadThreads :
    /\ d.mBufferPositionWhenUnregistered.some
    /\ d.mBufferPositionWhenUnregistered.v <= ps.buffer.rangeEnd
C9_Step ==
  LET sameActivePS == /\ ps.activeExists /\ ps'.activeExists
                      /\ ps'.active.mGeneration = ps.active.mGeneration
      deadAfter == {ps'.active.mDeadProfiledThreads[i] :
                      i \in 1..Len(ps'.active.mDeadProfiledThreads)}
      liveAfter == {ps'.active.mLiveProfiledThreads[i].mRegisteredThread :
                      i \in 1..Len(ps'.active.mLiveProfiledThreads)}
      kept == {d \in DeadThreads :
                 d.mBufferPositionWhenUnregistered.v >= ps.buffer.rangeStart}
  IN  sameActivePS =>
        /\ kept \subseteq deadAfter
        /\ \A t \in Threads :
             pc[t] = "unregister_body" /\ pc'[t] = "idle" /\
             ps.tls[t] # NullPtr =>
               /\ deadAfter \cap DeadThreads = kept
               /\ ps.tls[t] \notin liveAfter
               /\ ps.tls[t] \in LiveRids =>
                    \E d \in deadAfter \ DeadThreads :
                      /\ d.rid = ps.tls[t]
                      /\ d.mBufferPositionWhenUnregistered =
                           Some(ps.buffer.rangeEnd)
C9_DeadThreadsKeptWhileReferenced == []C9_DeadStamped /\ [][C9_Step]_vars
\* A dead entry stamped below rangeStart has been discarded by the
\* unregistration that put the entry now in the dead list there.
C9_Witness ==
  /\ ps.activeExists
  /\ ps.discarded > 0
  /\ DeadThreads # {}
  /\ \A d \in DeadThreads :
       d.mBufferPositionWhenUnregistered.v >= ps.buffer.rangeStart

\* C10: profiler_ensure_started(P), called while the ActivePS that an earlier
\* profiler_start(P) or profiler_ensure_started(P) created exists, leaves the
\* ActivePS, the buffer and the sampler threads as they are.
C10_Step ==
  \A t \in Threads :
    /\ pc[t] = "ensure_body"
    /\ pc'[t] # pc[t]
    /\ ps.activeExists
    /\ ps.active.requested = args[t]
    /\ aborted' = "no"
    => /\ ps'.active = ps.active
       /\ ps'.buffer = ps.buffer
       /\ ps'.samplers = ps.samplers
C10_EnsureStartedIdempotent == [][C10_Step]_vars

\* C6: while a thread is suspended the sampler holds gPSMutex and its next
\* step takes no buffer mutex; its steps in the window leave the core buffer
\* and its mutex alone and put the frames in the local buffer; so the sampler
\* never waits for a mutex that the suspended thread owns.
SamplerTakesBufferMutex ==
  \/ cs.step \in {"time", "append"}
  \/ cs.step = "idle" /\ lockOwner < 0
  \/ cs.step = "callback" /\ IsThreadSafe(CallbackBuffer)
C6_Window ==
  /\ cs.suspended # NoThread =>
       /\ lockOwner < 0
       /\ ~SamplerTakesBufferMutex
  /\ ~(SamplerTakesBufferMutex /\ cs.mutex # NoThread
         /\ cs.mutex = cs.suspended)
  /\ cs.mutex >= 0
  /\ ps.failedAssertions = {}
C6_Step ==
  cs.suspended # NoThread /\ cs'.step # cs.step =>
    /\ ps'.buffer = ps.buffer
    /\ cs'.mutex = cs.mutex
    /\ cs.step = "callback" =>
         /\ cs'.bytes > 0
         /\ Len(cs'.scratch) = Len(cs.scratch) + 1 \/ cs'.cleared
C6_NoBufferMutexWhileSuspended == []C6_Window /\ [][C6_Step]_vars
\* A thread has been suspended while it holds the core buffer's mutex to
\* write a marker, and the sampler has written the frames to its local
\* buffer.
C6_Witness ==
  /\ cs.suspended # NoThread
  /\ cs.mutex = cs.suspended
  /\ pc[cs.suspended] = "marker_write"
  /\ cs.step = "resume"
  /\ cs.scratch # <<>>

\* What the filter list says of one filter, given how the "pid:" form is
\* read: as written, or lowercased.
FilterMatches(filter, name, pidForm(_)) ==
  \/ filter = StarFilter
  \/ StrContains(ToLower(name), ToLower(filter))
  \/ pidForm(filter) = PidPrefix \o MyPidString
AsWritten(filter) == filter
Selects(a, rt, pidForm(_)) ==
  /\ rt.isMainThread \/ "Threads" \in a.mFeatures
  /\ \/ a.mFilters = <<>>
     \/ \E i \in 1..Len(a.mFilters) :
          FilterMatches(a.mFilters[i], rt.name, pidForm)
\* The filter lists of the example, and whether each selects "GeckoMain".
GeckoMainExamples ==
  /\ ps.active.mFilters \in
       {<<>>, Filter(StarFilter), Filter(<<"m","a","i","n">>),
        Filter(<<"G","E","C","K","O">>), Filter(PidPrefix \o MyPidString)}
       => \A rt \in Range(ps.mRegisteredThreads) :
            rt.name = kMainThreadName /\ rt.isMainThread => rt.isBeingProfiled
  /\ ps.active.mFilters = Filter(<<"w","o","r","k","e","r">>)
       => \A rt \in Range(ps.mRegisteredThreads) :
            rt.name = kMainThreadName => ~rt.isBeingProfiled

\* C11 (as stated): while an ActivePS exists a registered thread is profiled
\* iff (it is the main thread or Threads is on) and (the filter list is
\* empty, or holds "*", or some filter lowercased is a substring of the
\* lowercased thread name, or some filter is "pid:" followed by the process
\* id); "GeckoMain" is selected by [], ["*"], ["main"], ["GECKO"] and
\* ["pid:<self>"] and not by ["worker"].
C11_SelectedAsStated ==
  ps.activeExists =>
    /\ \A rt \in Range(ps.mRegisteredThreads) :
         rt.isBeingProfiled <=> Selects(ps.active, rt, AsWritten)
    /\ GeckoMainExamples
\* C11 (amended): the same, with the "pid:" form matched on the lowercased
\* filter: a filter selects by process id when, lowercased, it is "pid:"
\* followed by the decimal process id.
C11_SelectedLowercased ==
  ps.activeExists =>
    /\ \A rt \in Range(ps.mRegisteredThreads) :
         rt.isBeingProfiled <=> Selects(ps.active, rt, ToLower)
    /\ GeckoMainExamples
\* The profiler runs with the filter "GECKO": the main thread "GeckoMain"
\* is profiled, and "Worker1" has registered and is not.
C11_Witness ==
  /\ ps.activeExists
  /\ lockOwner = NoThread
  /\ ps.active.mFilters = Filter(<<"G","E","C","K","O">>)
  /\ \E rt \in Range(ps.mRegisteredThreads) :
       rt.name = kMainThreadName /\ rt.isBeingProfiled
  /\ \E rt \in Range(ps.mRegisteredThreads) :
       rt.name = WorkerThreadName /\ ~rt.isBeingProfiled

\* The kind of entry that follows an entry of one periodic sample.
NextKindOfSample(kind) == IF kind = "ThreadId" THEN "Time" ELSE "Frames"
\* C12: the entries of one periodic sample are contiguous in the core buffer,
\* in the order ThreadId, Time, frames: whatever follows the ThreadId or the
\* Time entry of a sample in the buffer is the next entry of the same sample,
\* never an entry of another producer.
C12_SampleEntriesContiguous ==
  \A i \in 1..(Len(ps.buffer.entries) - 1) :
    LET e == ps.buffer.entries[i]
        f == ps.buffer.entries[i + 1]
    IN  e.kind \in {"ThreadId", "Time"} =>
          /\ f.kind = NextKindOfSample(e.kind)
          /\ f.tid = e.tid
          /\ f.by = e.by

(***************************************************************************)
(* MergeStacks: what is said of its output.                                *)
(***************************************************************************)
Merged == cs.merge.collected
MergeDone == ~MergeStacks_FramesRemain(cs.merge)
\* The profiling-stack frames that carry a stack address, by index (from 0).
AddressedFrames ==
  {i \in 0..(Len(cs.merge.frames) - 1) :
     cs.merge.frames[i + 1].kind \in {"Label", "SpMarker"}}
NativeFrames == 0..(Len(cs.merge.mSPs) - 1)
FrameAddr(i) == cs.merge.frames[i + 1].sp
NativeAddr(n) == cs.merge.mSPs[n + 1]
\* Label frames oldest-first with decreasing stack addresses, native frames
\* innermost-first (increasing stack addresses).
LabelFramesDecrease ==
  \A i, j \in AddressedFrames : i < j => FrameAddr(i) >= FrameAddr(j)
NativeFramesIncrease ==
  \A n, k \in NativeFrames : n < k => NativeAddr(n) <= NativeAddr(k)
NativeFramesStrictlyIncrease ==
  \A n, k \in NativeFrames : n < k => NativeAddr(n) < NativeAddr(k)
TimesEmitted(from, index) ==
  Cardinality({i \in 1..Len(Merged) :
                 Merged[i].from = from /\ Merged[i].index = index})

\* C13: for label frames with decreasing stack addresses and native frames
\* given innermost-first, the stack addresses of the emitted frames never
\* increase, the label frames are emitted in the order of the profiling
\* stack and the native frames from the outermost to the innermost; and at
\* every step the frame emitted is the candidate with the higher address.
C13_Ordered ==
  LabelFramesDecrease /\ NativeFramesIncrease =>
    \A i, j \in 1..Len(Merged) :
      i < j =>
        /\ Merged[i].sp >= Merged[j].sp
        /\ Merged[i].from = "profiling" /\ Merged[j].from = "profiling"
             => Merged[i].index < Merged[j].index
        /\ Merged[i].from = "native" /\ Merged[j].from = "native"
             => Merged[i].index > Merged[j].index
C13_Step ==
  Len(cs'.merge.collected) > Len(Merged) =>
    LET e == cs'.merge.collected[Len(cs'.merge.collected)]
        hasFrame == cs.merge.profilingStackIndex # Len(cs.merge.frames)
    IN  /\ cs'.merge.collected = Append(Merged, e)
        /\ e.from = "profiling" =>
             /\ e.index = cs.merge.profilingStackIndex
             /\ cs.merge.nativeIndex >= 0 =>
                  e.sp >= NativeAddr(cs.merge.nativeIndex)
        /\ e.from = "native" =>
             /\ e.index = cs.merge.nativeIndex
             /\ hasFrame => e.sp > cs'.merge.lastLabelFrameStackAddr
C13_OldestFirst == []C13_Ordered /\ [][C13_Step]_vars
\* A native frame has been emitted between two label frames.
C13_Witness ==
  /\ MergeDone
  /\ LabelFramesDecrease /\ NativeFramesIncrease
  /\ \E i, j, k \in 1..Len(Merged) :
       /\ i < j /\ j < k
       /\ Merged[i].from = "profiling" /\ Merged[j].from = "native"
       /\ Merged[k].from = "profiling"
       /\ Merged[i].sp > Merged[j].sp /\ Merged[j].sp > Merged[k].sp

\* A native frame has the stack address of a label frame.
HasLabelAddr(n) == \E i \in AddressedFrames : FrameAddr(i) = NativeAddr(n)
\* C14 (as stated): whatever the two stacks, a native frame is suppressed
\* exactly when its stack address is that of a label frame, and every other
\* native frame is emitted exactly once.
C14_SuppressedIffTied ==
  MergeDone =>
    \A n \in NativeFrames :
      /\ TimesEmitted("native", n) = 0 <=> HasLabelAddr(n)
      /\ ~HasLabelAddr(n) => TimesEmitted("native", n) = 1
\* C14 (amended): whatever the two stacks, a native frame is emitted at most
\* once, and exactly once if its stack address is that of no label frame;
\* when the label frames' addresses decrease oldest-first and the native
\* frames' addresses strictly increase innermost-first, it is suppressed
\* exactly when its stack address is that of a label frame.
C14_SuppressedIffTiedWhenOrdered ==
  MergeDone =>
    \A n \in NativeFrames :
      /\ TimesEmitted("native", n) <= 1
      /\ ~HasLabelAddr(n) => TimesEmitted("native", n) = 1
      /\ LabelFramesDecrease /\ NativeFramesStrictlyIncrease =>
           (TimesEmitted("native", n) = 0 <=> HasLabelAddr(n))
\* Of two native frames, the outer one has been suppressed by the label
\* frame with its stack address and the inner one emitted.
C14_Witness ==
  /\ MergeDone
  /\ LabelFramesDecrease /\ NativeFramesStrictlyIncrease
  /\ Len(cs.merge.mSPs) = 2
  /\ HasLabelAddr(1) /\ TimesEmitted("native", 1) = 0
  /\ ~HasLabelAddr(0) /\ TimesEmitted("native", 0) = 1
  /\ \E i \in 1..Len(Merged) :
       Merged[i].kind = "Label" /\ Merged[i].sp = NativeAddr(1)

\* C15: whatever the two stacks, no frame of kind SpMarker or JsOsr is passed
\* to the collector, no profiling-stack frame is passed twice, and once
\* MergeStacks has returned every frame of kind Label has been passed once.
C15_OnlyLabelsCollected ==
  /\ \A i \in 1..Len(Merged) :
       Merged[i].from = "profiling" =>
         /\ Merged[i].kind = "Label"
         /\ cs.merge.frames[Merged[i].index + 1].kind = "Label"
  /\ \A i \in 0..(Len(cs.merge.frames) - 1) :
       /\ TimesEmitted("profiling", i) <= 1
       /\ MergeDone /\ cs.merge.frames[i + 1].kind = "Label"
            => TimesEmitted("profiling", i) = 1
\* MergeStacks has returned from a profiling stack with a frame of each kind
\* and a native stack: the label frame is the only profiling-stack frame
\* collected.
C15_Witness ==
  /\ MergeDone
  /\ {cs.merge.frames[i].kind : i \in 1..Len(cs.merge.frames)}
       = {"Label", "SpMarker", "JsOsr"}
  /\ cs.merge.mSPs # <<>>
  /\ Cardinality({i \in 1..Len(Merged) : Merged[i].from = "profiling"}) = 1
  /\ \E i \in 1..Len(Merged) : Merged[i].from = "native"

(***************************************************************************)
(* Samples of sleeping threads.                                            *)
(***************************************************************************)
\* The block at position pos of buffer b.
EntryAt(b, pos) == b.entries[pos - b.rangeStart + 1]

\* Whether position pos still holds a block of buffer b.
InRange(b, pos) == pos >= b.rangeStart /\ pos < b.rangeEnd

\* The only live profiled thread, and its RegisteredThread.
OnlyLive == ps.active.mLiveProfiledThreads[1]
OnlyRegistered == ps.mRegisteredThreads[1]

\* The sampler's iteration over one live thread wrote a sample.
SampledOnlyThread ==
  /\ ps.activeExists /\ ps'.activeExists
  /\ Len(ps.active.mLiveProfiledThreads) = 1
  /\ \E s \in 1..Len(ps.samplers) :
       /\ ps.samplers[s].state = "sampling"
       /\ ps'.samplers[s].state = "loop"
       /\ ~ps.samplers[s].noStackSampling
  /\ ps'.buffer.rangeEnd = ps.buffer.rangeEnd + 1

\* The thread was sampled before in this sleep episode and that sample is
\* still in the buffer.
CanReuseLastSample ==
  /\ OnlyRegistered.mSleep = "SLEEPING_OBSERVED"
  /\ OnlyLive.mProfiledThreadData.mLastSample.some
  /\ InRange(ps.buffer, OnlyLive.mProfiledThreadData.mLastSample.v)

\* C16: when a thread that sleeps and was sampled in this sleep episode is
\* sampled again, the new record is a copy of the record at the thread's
\* last sample position, written at a new position that becomes the last
\* sample position, and the thread is not suspended and unwound; a
\* suspend-and-unwind sample is taken only by a sampling iteration, and only
\* if the thread is not in the sampled-while-sleeping state or the last
\* sample cannot be duplicated.
C16_Step ==
  /\ (SampledOnlyThread /\ CanReuseLastSample) =>
       /\ ps'.unwinds = ps.unwinds
       /\ EntryAt(ps'.buffer, ps.buffer.rangeEnd) =
            EntryAt(ps.buffer, OnlyLive.mProfiledThreadData.mLastSample.v)
       /\ ps'.active.mLiveProfiledThreads[1].mProfiledThreadData.mLastSample =
            Some(ps.buffer.rangeEnd)
       /\ ps.buffer.rangeEnd # OnlyLive.mProfiledThreadData.mLastSample.v
  /\ (Running /\ ps'.unwinds # ps.unwinds) =>
       /\ SampledOnlyThread
       /\ ps'.unwinds = ps.unwinds + 1
       /\ ~CanReuseLastSample
C16_SleepingThreadSampleReused == [][C16_Step]_vars

\* The thread sleeps, has pushed a label frame since it was first sampled in
\* this sleep episode, and the buffer holds that sample and its copy: two
\* records with the payload of the first, only one of them unwound.
C16_Witness ==
  /\ ps.activeExists
  /\ Len(ps.active.mLiveProfiledThreads) = 1
  /\ OnlyRegistered.mSleep = "SLEEPING_OBSERVED"
  /\ OnlyRegistered.stackSize = 1
  /\ Len(ps.buffer.entries) = 2
  /\ ps.buffer.entries[1] = ps.buffer.entries[2]
  /\ ps.buffer.entries[2].kind = "Sample"
  /\ ps.buffer.entries[2].stackSize = 0
  /\ OnlyLive.mProfiledThreadData.mLastSample = Some(ps.buffer.rangeEnd - 1)
  /\ ps.unwinds = 1

(***************************************************************************)
(* Calls made while the profiler is inactive or paused.                    *)
(***************************************************************************)
\* The bodies, under the lock, of the calls that need an ActivePS.
NeedsActivePS == {"stop_body", "pause_body", "resume_body", "stream_body"}

\* Thread t leaves the body of such a call, entered without an ActivePS.
ReturnsWithoutActivePS(t) ==
  /\ Running
  /\ pc[t] \in NeedsActivePS
  /\ pc'[t] # pc[t]
  /\ ~ps.activeExists

\* Thread t calls stop, pause, resume or stream.
CallsForActivePS(t) ==
  /\ Running
  /\ ps.coreExists
  /\ pc[t] = "idle"
  /\ pc'[t] \in {"stop_lock", "pause_lock", "resume_lock", "stream_lock"}

\* C17: profiler_stop, profiler_pause, profiler_resume and
\* profiler_stream_json_for_this_process (CorePS existing) that find no
\* ActivePS under the lock change nothing: CorePS, the registered threads
\* and pages, RacyFeatures' word and the core buffer, which is empty, are as
\* before, no assertion fails, there is no sampler to join, and the stream
\* returns false; before the lock they change nothing either.
C17_Step ==
  \A t \in Threads :
    /\ ReturnsWithoutActivePS(t) =>
         /\ ps' = [ps EXCEPT !.returned[t] =
                     IF pc[t] = "stream_body" THEN "false" ELSE @]
         /\ ps.buffer.entries = <<>> /\ ~ps.buffer.open
         /\ ps.sActiveAndFeatures = {}
         /\ aborted' = "no"
         /\ pc'[t] = "idle"
         /\ hnd'[t] = NullPtr
         /\ lockOwner' = NoThread
    /\ CallsForActivePS(t) =>
         /\ ps' = ps
         /\ aborted' = "no"
         /\ UNCHANGED <<lockOwner, hnd, cs, rf>>
C17_NoOpWithoutActivePS == [][C17_Step]_vars

\* After a profiling session a page is registered and the stream, called
\* with no ActivePS, has returned false.
C17_Witness ==
  /\ ~ps.activeExists
  /\ Len(ps.samplers) >= 1
  /\ Len(ps.mRegisteredPages) = 1
  /\ ps.returned[Controller] = "false"
  /\ pc[Controller] = "idle"

\* Thread t, past the racy test, writes its marker to the core buffer while
\* there is no ActivePS.
WritesWithoutActivePS(t) ==
  /\ Running
  /\ pc[t] = "marker_write"
  /\ pc'[t] = "idle"
  /\ ~ps.activeExists

\* C18: a marker that reaches the core buffer while there is no ActivePS is
\* dropped: the buffer is and stays empty, nothing else changes, no
\* assertion fails, and the thread gets to the buffer and returns whoever
\* holds gPSMutex.
C18_Step ==
  \A t \in Threads :
    WritesWithoutActivePS(t) =>
      /\ ps' = [ps EXCEPT !.returned[t] = "no block"]
      /\ ps'.buffer.entries = <<>>
      /\ aborted' = "no"
      /\ UNCHANGED <<lockOwner, args, hnd, rf>>
C18_NeverWaitsForLock ==
  \A t \in Threads :
    /\ (Running /\ pc[t] = "marker_put") => ENABLED PutObjects_lock(t)
    /\ (Running /\ pc[t] = "marker_write") => ENABLED PutObjects_write(t)
C18_LateMarkerDropped == []C18_NeverWaitsForLock /\ [][C18_Step]_vars

\* The marker of the main thread passed the racy test before profiler_stop
\* and was dropped while another call held gPSMutex.
C18_Witness ==
  /\ ~ps.activeExists
  /\ Len(ps.samplers) >= 1
  /\ ps.returned[InitThread] = "no block"
  /\ pc[InitThread] = "idle"
  /\ lockOwner = Controller
  /\ ps.buffer.entries = <<>>

\* Thread t, which is being profiled, calls racy_profiler_add_marker while
\* the profiler is paused.
AddsMarkerWhilePaused(t) ==
  /\ Running
  /\ pc[t] = "idle"
  /\ cs'.markers = cs.markers + 1
  /\ ps.activeExists
  /\ ps.active.mIsPaused
  /\ "Paused" \in ps.sActiveAndFeatures
  /\ IsBeingProfiled(ps, t)

\* C19: a marker added by a profiled thread while the profiler is paused
\* goes on to the buffer, and a marker written while ActivePS exists, paused
\* or not, is the buffer's newest block.
C19_Step ==
  \A t \in Threads :
    /\ AddsMarkerWhilePaused(t) => pc'[t] = "marker_put"
    /\ (Running /\ pc[t] = "marker_write" /\ pc'[t] = "idle"
          /\ ps.activeExists) =>
         /\ ps'.buffer.rangeEnd = ps.buffer.rangeEnd + 1
         /\ EntryAt(ps'.buffer, ps.buffer.rangeEnd).kind = "Marker"
         /\ EntryAt(ps'.buffer, ps.buffer.rangeEnd).tid = t
C19_MarkerRecordedWhilePaused == [][C19_Step]_vars

\* The profiler is paused and the buffer holds the Pause entry followed by
\* the marker added since.
C19_Witness ==
  /\ ps.activeExists
  /\ ps.active.mIsPaused
  /\ Len(ps.buffer.entries) = 2
  /\ ps.buffer.entries[1].kind = "Pause"
  /\ ps.buffer.entries[2].kind = "Marker"
  /\ ps.buffer.entries[2].tid = InitThread

(***************************************************************************)
(* Sampler threads.                                                        *)
(***************************************************************************)
\* The sampler threads that were created and have not returned from Run.
NotYetExited ==
  {s \in SamplerIds : ps.samplers[s].state \notin {"exited", "deleted"}}

\* Those of them that were created for the ActivePS that exists.
OfActiveGeneration ==
  {s \in NotYetExited :
     ps.samplers[s].mActivityGeneration = ps.active.mGeneration}

\* C20 as stated: whenever ActivePS exists, exactly one sampler thread has
\* not exited.
C20_ExactlyOneSampler ==
  ps.activeExists => Cardinality(NotYetExited) = 1

C20_OwnSampler ==
  ps.activeExists =>
    /\ OfActiveGeneration = {ps.active.mSamplerThread}
    /\ \A s \in NotYetExited \ OfActiveGeneration :
         /\ ps.samplers[s].state # "sampling"
         /\ \E t \in Threads : pc[t] \in JoinPcs /\ hnd[t] = s
C20_StaleSamplerExits ==
  \A s \in SamplerIds :
    (/\ Running
     /\ ps.activeExists
     /\ s \in NotYetExited \ OfActiveGeneration
     /\ ps.samplers[s].state = "loop"
     /\ aborted' = "no"
     /\ ps'.samplers[s].state # "loop") => ps'.samplers[s].state = "exited"

\* C20: whenever ActivePS exists, exactly one sampler thread of its
\* generation has not exited, the one ActivePS owns; any other sampler thread
\* that has not exited was created for an earlier ActivePS, is being deleted
\* by the call that stopped or replaced that ActivePS, is not sampling, and
\* returns from Run at its next iteration.
C20_ExactlyOneSamplerOfItsGeneration ==
  []C20_OwnSampler /\ [][C20_StaleSamplerExits]_vars

\* ActivePS exists with its own sampler running while the sampler of the
\* ActivePS before it is still in its loop, awaited by the call that
\* replaced it.
C20_Witness ==
  /\ ps.activeExists
  /\ Cardinality(NotYetExited) = 2
  /\ ps.samplers[ps.active.mSamplerThread].state = "loop"
  /\ \E s \in NotYetExited :
       /\ s # ps.active.mSamplerThread
       /\ ps.samplers[s].state = "loop"
       /\ \E t \in Threads : pc[t] = "start_join" /\ hnd[t] = s

(***************************************************************************)
(* Suspensions.                                                            *)
(***************************************************************************)
\* At most one thread is suspended, by the owner of gPSMutex; the registered
\* threads do not change meanwhile; the suspender is a sampler thread.
C21_OneSuspension ==
  /\ Cardinality(cs.suspensions) <= 1
  /\ \A x \in cs.suspensions : lockOwner = x.by
C21_RegistryStep ==
  (Running /\ cs.suspensions # {} /\ aborted' = "no") =>
     /\ ps'.mRegisteredThreads = ps.mRegisteredThreads
     /\ ps'.tls = ps.tls
C21_BySamplerThread == \A x \in cs.suspensions : x.by < 0

\* C21 as stated: at every instant at most one thread is suspended, and it is
\* a sampler thread that has it suspended.
C21_OnlySamplerThreadSuspends == C21_OneSuspension /\ C21_BySamplerThread

\* C21: at most one thread is suspended at any instant, the thread that has
\* it suspended (the sampler thread in its loop, or the caller of
\* profiler_suspend_and_sample_thread) holds gPSMutex, and the registered
\* threads and their TLS pointers do not change while a thread is suspended.
C21_OneSuspensionUnderLock ==
  []C21_OneSuspension /\ [][C21_RegistryStep]_vars

\* Thread 1 has thread 2 suspended through profiler_suspend_and_sample_thread
\* while the sampler thread is in its loop and thread 2 was about to
\* unregister.
C21_Witness ==
  /\ cs.suspensions = {[by |-> 1, target |-> 2]}
  /\ pc[1] = "suspend_callback"
  /\ pc[2] = "unregister_lock"
  /\ \E s \in SamplerIds : ps.samplers[s].state = "loop"

\* C22: no Sampler has the thread it runs on suspended.
C22_NeverSuspendsItself == \A x \in cs.suspensions : x.by # x.target

\* C23: registering a page whose inner window id is already registered
\* replaces the earlier record when that record's URL is "about:blank" and
\* changes nothing otherwise; and at all times no two registered pages share
\* an inner window id.
WithInnerWindowID(pages, id) == SelectSeq(pages, LAMBDA rd : rd.id = id)
WithoutInnerWindowID(pages, id) == SelectSeq(pages, LAMBDA rd : rd.id # id)
C23_UniqueIds ==
  \A i, j \in 1..Len(ps.mRegisteredPages) :
     ps.mRegisteredPages[i].id = ps.mRegisteredPages[j].id => i = j
C23_Step ==
  \A t \in Threads :
    (pc[t] = "register_page_body" /\ pc'[t] = "idle" /\ aborted' = "no") =>
      LET before == ps.mRegisteredPages
          after == ps'.mRegisteredPages
          prior == WithInnerWindowID(before, args[t].id)
      IN  /\ WithoutInnerWindowID(after, args[t].id)
               = WithoutInnerWindowID(before, args[t].id)
          /\ (prior # <<>> /\ prior[1].url = "about:blank")
               => WithInnerWindowID(after, args[t].id) = <<args[t]>>
          /\ (prior # <<>> /\ prior[1].url # "about:blank") => after = before
C23_RegisterPageReplacesBlank == []C23_UniqueIds /\ [][C23_Step]_vars
C23_Witness ==
  /\ ps.pageRegistrations = 3
  /\ Len(ps.mRegisteredPages) = 2
  /\ \A i \in 1..2 : ps.mRegisteredPages[i].url # "about:blank"

\* C24: whatever arguments profiler_start is given, the ActivePS it creates
\* holds a capacity that is a power of two of at least 8192 entries, an
\* interval greater than 0 and a duration that is absent or greater than 0,
\* and arguments already in those ranges are stored as given.
RECURSIVE IsPowerOfTwo(_)
IsPowerOfTwo(n) ==
  IF n <= 1 THEN n = 1 ELSE n % 2 = 0 /\ IsPowerOfTwo(n \div 2)
C24_CapacityInRange ==
  ps.activeExists =>
    /\ IsPowerOfTwo(ps.active.mCapacity)
    /\ ps.active.mCapacity >= 8192
    /\ (ps.active.requested.capacity >= 8192
          => ps.active.mCapacity = ps.active.requested.capacity)
C24_IntervalInRange ==
  ps.activeExists =>
    /\ DoubleGreater(ps.active.mInterval, 0)
    /\ (DoubleGreater(ps.active.requested.interval, 0)
          => ps.active.mInterval = ps.active.requested.interval)
C24_DurationInRange ==
  ps.activeExists =>
    /\ (~ps.active.mDuration.some \/ DoubleGreater(ps.active.mDuration.v, 0))
    /\ ((~ps.active.requested.duration.some
           \/ DoubleGreater(ps.active.requested.duration.v, 0))
          => ps.active.mDuration = ps.active.requested.duration)
C24_StartClampsItsArguments ==
  C24_CapacityInRange /\ C24_IntervalInRange /\ C24_DurationInRange

\* C25: whenever gPSMutex is free, a registered thread's IsBeingProfiled flag
\* is set if and only if ActivePS exists and its live profiled-thread list has
\* an entry for the thread, over every interleaving of register, unregister,
\* start, stop and ensure_started.
HasLiveEntry(rid) ==
  /\ ps.activeExists
  /\ \E i \in 1..Len(ps.active.mLiveProfiledThreads) :
        ps.active.mLiveProfiledThreads[i].mRegisteredThread = rid
C25_FlagIffLiveEntry ==
  lockOwner = NoThread =>
    \A i \in 1..Len(ps.mRegisteredThreads) :
       ps.mRegisteredThreads[i].isBeingProfiled
         <=> HasLiveEntry(ps.mRegisteredThreads[i].rid)
C25_Witness ==
  /\ lockOwner = NoThread
  /\ ps.activeExists
  /\ \E i, j \in 1..Len(ps.mRegisteredThreads) :
        /\ ps.mRegisteredThreads[i].isBeingProfiled
        /\ HasLiveEntry(ps.mRegisteredThreads[i].rid)
        /\ ~ps.mRegisteredThreads[j].isBeingProfiled
        /\ ~HasLiveEntry(ps.mRegisteredThreads[j].rid)
  /\ Len(ps.generations) = 2

\* C26: a thread that registers while ActivePS exists gets an entry in the
\* live profiled-thread list if and only if ShouldProfileThread accepts it;
\* and as long as that ActivePS exists a registered thread it does not accept
\* has no entry among the live or dead profiled threads and no sample in the
\* buffer.
NewlyRegistered(t) == ps'.mRegisteredThreads[Len(ps'.mRegisteredThreads)]
C26_Step ==
  \A t \in Threads :
    (/\ pc[t] = "register_body" /\ pc'[t] = "idle" /\ aborted' = "no"
     /\ ps.activeExists)
      => /\ Len(ps'.mRegisteredThreads) = Len(ps.mRegisteredThreads) + 1
         /\ NewlyRegistered(t).tid = t
         /\ (\E i \in 1..Len(ps'.active.mLiveProfiledThreads) :
               ps'.active.mLiveProfiledThreads[i].mRegisteredThread
                 = NewlyRegistered(t).rid)
              <=> ShouldProfileThread(ps.active, NewlyRegistered(t))
         /\ Len(ps'.active.mLiveProfiledThreads)
              = Len(ps.active.mLiveProfiledThreads)
                + (IF ShouldProfileThread(ps.active, NewlyRegistered(t))
                   THEN 1 ELSE 0)
C26_NotProfiled ==
  ps.activeExists =>
    \A rt \in Range(ps.mRegisteredThreads) :
      ~ShouldProfileThread(ps.active, rt) =>
        /\ \A i \in 1..Len(ps.active.mLiveProfiledThreads) :
             /\ ps.active.mLiveProfiledThreads[i].mRegisteredThread # rt.rid
             /\ ps.active.mLiveProfiledThreads[i].mProfiledThreadData.tid
                  # rt.tid
        /\ \A i \in 1..Len(ps.active.mDeadProfiledThreads) :
             ps.active.mDeadProfiledThreads[i].tid # rt.tid
        /\ \A i \in 1..Len(ps.buffer.entries) :
             ps.buffer.entries[i].kind = "Sample"
               => ps.buffer.entries[i].tid # rt.tid
C26_OnlyMatchingThreadsProfiled == []C26_NotProfiled /\ [][C26_Step]_vars
\* With the filter "main" the sampler has sampled "GeckoMain" while
\* "Worker1" is registered.
C26_Witness ==
  /\ ps.activeExists
  /\ ps.active.mFilters = Filter(<<"m","a","i","n">>)
  /\ \E rt \in Range(ps.mRegisteredThreads) :
       rt.name = WorkerThreadName /\ ~ShouldProfileThread(ps.active, rt)
  /\ \E i \in 1..Len(ps.buffer.entries) :
       ps.buffer.entries[i].kind = "Sample" /\ ps.buffer.entries[i].tid = InitThread

\* C27: profiler_register_thread on a thread that is already registered ends
\* the process at the release assertion of locked_register_thread and
\* registers nothing; so the thread ids of CorePS's registered threads are
\* pairwise distinct at all times.  (A thread that has reached
\* locked_register_thread while registered leaves it only with the process
\* ended, by its own assertion or by another thread's.)
AlreadyRegistered(t) ==
  \E i \in 1..Len(ps.mRegisteredThreads) : ps.mRegisteredThreads[i].tid = t
DuplicateRegistration ==
  "locked_register_thread: MOZ_RELEASE_ASSERT(!FindCurrentThreadRegisteredThread(aLock))"
C27_Step ==
  \A t \in Threads :
    (/\ pc[t] = "register_body" /\ lockOwner = t /\ pc'[t] # pc[t]
     /\ ps.coreExists /\ AlreadyRegistered(t))
      => /\ aborted' # "no"
         /\ ps'.mRegisteredThreads = <<>>
C27_DistinctTids ==
  \A i, j \in 1..Len(ps.mRegisteredThreads) :
     ps.mRegisteredThreads[i].tid = ps.mRegisteredThreads[j].tid => i = j
C27_DuplicateRegistrationIsFatal == []C27_DistinctTids /\ [][C27_Step]_vars
C27_Witness == aborted = DuplicateRegistration

\* C28: a sampler thread that has passed the checks at the top of an
\* iteration keeps the ActivePS of its generation until it releases gPSMutex:
\* no step taken while it samples removes or replaces ActivePS, the release
\* assertion of DoSharedSample never fails, and every entry of a sample in
\* the buffer was written under the ActivePS its sampler was created for.
DoSharedSampleAssertion ==
  "DoSharedSample: MOZ_RELEASE_ASSERT(ActivePS::Exists(aLock))"
InIteration(s) ==
  s <= Len(ps.samplers) /\ ps.samplers[s].state = "sampling"
C28_Step ==
  \A s \in Samplers :
    InIteration(s) =>
      /\ lockOwner = -s
      /\ ps.activeExists
      /\ ps.active.mGeneration = ps.samplers[s].mActivityGeneration
      /\ aborted' = "no"
      /\ ps'.activeExists
      /\ ps'.active.mGeneration = ps.active.mGeneration
      /\ ps'.buffer.open
C28_SampleEntriesOfOwnGeneration ==
  \A i \in 1..Len(ps.buffer.entries) :
    ps.buffer.entries[i].kind \in {"ThreadId", "Time", "Frames"}
      => /\ ps.buffer.entries[i].gen = ps.buffer.entries[i].by
         /\ ps.activeExists
         /\ ps.buffer.entries[i].gen = ps.active.mGeneration
C28_StopObservedAtTopOfIteration ==
  /\ [][C28_Step]_vars
  /\ [](aborted # DoSharedSampleAssertion)
  /\ []C28_SampleEntriesOfOwnGeneration
\* A profiler_stop waits for gPSMutex while the sampler, inside the
\* suspension of a thread, has run DoSharedSample, in the second session,
\* after the first session was sampled and stopped.
C28_Witness ==
  /\ \E t \in Threads : pc[t] = "stop_lock"
  /\ cs.step = "resume"
  /\ Len(ps.generations) = 2
  /\ ps.buffer.rangeEnd >= 8

\* C29 (as stated): after a sample was found too big (the local buffer
\* cleared a block, or the sample is at least as long as the core buffer),
\* nothing of that sample is in the core buffer.
C29_DiscardedSampleLeavesNothing ==
  cs.tooBig.some => ~InRange(ps.buffer, cs.tooBig.v)
\* C29 (amended): a sample found too big contributes nothing of what the
\* local buffer captured: the step that would copy it leaves the core buffer
\* as it is, with the ThreadId and Time entries written before the
\* suspension; any other sample's captured frames are appended to the core
\* buffer.  Either way the local buffer is empty again before the next
\* thread is sampled.
TooBig ==
  cs.cleared \/ cs.bytes >= 8 * ps.active.mCapacity
C29_Step ==
  (cs.step = "append" /\ cs'.step = "idle" /\ aborted' = "no") =>
    /\ TooBig => ps'.buffer = ps.buffer
    /\ ~TooBig =>
         /\ cs.scratch # <<>>
         /\ ps'.buffer = AppendContents(ps.buffer, cs.scratch)
    /\ cs'.scratch = <<>> /\ cs'.bytes = 0 /\ ~cs'.cleared
C29_LocalEmptyBetweenThreads ==
  cs.step \in {"idle", "time", "suspend", "callback"} =>
    cs.scratch = <<>> /\ cs.bytes = 0 /\ ~cs.cleared
C29_TooBigSampleKeepsOnlyThreadIdAndTime ==
  [][C29_Step]_vars /\ []C29_LocalEmptyBetweenThreads
\* Both ways of being too big have happened in one iteration, and the
\* second sample's ThreadId and Time entries are what the buffer holds.
C29_Witness ==
  /\ cs.tooBig.some
  /\ cs.step = "idle"
  /\ ps.buffer.rangeEnd = 4
  /\ InRange(ps.buffer, cs.tooBig.v)
  /\ EntryAt(ps.buffer, cs.tooBig.v).kind = "ThreadId"
  /\ EntryAt(ps.buffer, cs.tooBig.v + 1).kind = "Time"

\* C30: while the profiler is paused an iteration of the sampler thread
\* still returns when ActivePS is gone or of another generation, and
\* otherwise discards the expired exit profiles, but it appends nothing to
\* the buffer and suspends no thread; an iteration that finds the profiler
\* resumed samples every live thread.
SamplerStep(s) ==
  /\ s <= Len(ps.samplers)
  /\ aborted' = "no"
  /\ ps'.samplers[s].state # ps.samplers[s].state
  /\ ps.samplers[s].state \in {"loop", "sampling"}
Unexpired(profiles, rangeStart) ==
  SelectSeq(profiles, LAMBDA x : x.mBufferPositionAtGatherTime >= rangeStart)
C30_IterationStep ==
  \A s \in Samplers :
    (SamplerStep(s) /\ ps.samplers[s].state = "loop") =>
      IF ~ps.activeExists
           \/ ps.active.mGeneration # ps.samplers[s].mActivityGeneration
      THEN ps'.samplers[s].state = "exited"
      ELSE /\ ps'.samplers[s].state = "sampling"
           /\ lockOwner' = -s
           /\ ps'.active.mExitProfiles
                = Unexpired(ps.active.mExitProfiles, ps.buffer.rangeStart)
           /\ ps'.buffer = ps.buffer
C30_PausedStep ==
  \A s \in Samplers :
    (SamplerStep(s) /\ ps.samplers[s].state = "sampling"
       /\ ps.active.mIsPaused)
      => /\ ps'.buffer = ps.buffer
         /\ ps'.unwinds = ps.unwinds
         /\ ps'.active = ps.active
         /\ cs' = cs
         /\ lockOwner' = NoThread
C30_ResumedStep ==
  \A s \in Samplers :
    (SamplerStep(s) /\ ps.samplers[s].state = "sampling"
       /\ ~ps.active.mIsPaused)
      => /\ cs.step = "append"
         /\ cs.i + 1 = Len(ps.active.mLiveProfiledThreads)
C30_NothingWhilePaused ==
  \A s \in Samplers :
    (s <= Len(ps.samplers) /\ ps.samplers[s].state = "sampling"
       /\ ps.active.mIsPaused)
      => /\ cs.step = "idle" /\ cs.i = 0
         /\ cs.suspensions = {} /\ cs.suspended = NoThread
         /\ cs.scratch = <<>>
C30_SamplesWhenResumed ==
  \A s \in Samplers :
    (/\ s <= Len(ps.samplers) /\ ps.samplers[s].state = "sampling"
     /\ ~ps.active.mIsPaused /\ cs.step = "idle" /\ cs.mutex = NoThread)
      => ENABLED Sample_AddThreadIdEntry(s)
C30_PausedIterationSamplesNothing ==
  /\ [][C30_IterationStep /\ C30_PausedStep /\ C30_ResumedStep]_vars
  /\ []C30_NothingWhilePaused
  /\ []C30_SamplesWhenResumed
\* After a pause and a resume, the first sample of the resumed profiler
\* follows the Resume entry in the buffer.
C30_Witness ==
  /\ Len(ps.buffer.entries) = 2
  /\ ps.buffer.entries[1].kind = "Resume"
  /\ ps.buffer.entries[2].kind = "ThreadId"
  /\ ps.buffer.rangeEnd = 2

\* C31: an exit profile received while ActivePS exists is appended with the
\* buffer's rangeEnd of that moment as its stamp, and one received while
\* ActivePS is absent changes nothing.  ClearExpiredExitProfiles (every
\* sampler iteration, AddExitProfile, MoveExitProfiles) drops exactly the
\* profiles whose stamp is < rangeStart.  MoveExitProfiles returns the JSON
\* of every remaining profile, once and in order, and leaves the list empty.
\* Every other step keeps the list as it is, except profiler_stop, which
\* destroys ActivePS and its list with it.
ExitStep(t, body) ==
  aborted' = "no" /\ pc[t] = body /\ pc'[t] # body
StampedNow(aExitProfile) ==
  [mJSON |-> aExitProfile, mBufferPositionAtGatherTime |-> ps.buffer.rangeEnd]
JSONOf(profiles) == [i \in 1..Len(profiles) |-> profiles[i].mJSON]
C31_ReceivedStep ==
  \A t \in Threads :
    ExitStep(t, "exit_profile_body") =>
      IF ps.activeExists
      THEN /\ ps'.active.mExitProfiles
                = Append(Unexpired(ps.active.mExitProfiles,
                                   ps.buffer.rangeStart),
                         StampedNow(args[t].aExitProfile))
           /\ ps'.buffer = ps.buffer
           /\ ps'.movedProfiles = ps.movedProfiles
      ELSE ps' = ps
C31_MoveStep ==
  \A t \in Threads :
    ExitStep(t, "move_exit_body") =>
      IF ps.activeExists
      THEN /\ ps'.movedProfiles
                = JSONOf(Unexpired(ps.active.mExitProfiles,
                                   ps.buffer.rangeStart))
           /\ ps'.active.mExitProfiles = <<>>
           /\ ps'.buffer = ps.buffer
      ELSE /\ ps'.movedProfiles = <<>>
           /\ ps'.active = ps.active
C31_ClearStep ==
  \A s \in Samplers :
    (SamplerStep(s) /\ ps.samplers[s].state = "loop"
       /\ ps'.samplers[s].state = "sampling")
      => ps'.active.mExitProfiles
           = Unexpired(ps.active.mExitProfiles, ps.buffer.rangeStart)
C31_OtherStep ==
  (/\ aborted' = "no"
   /\ \A t \in Threads :
        ~ExitStep(t, "exit_profile_body") /\ ~ExitStep(t, "move_exit_body")
   /\ \A s \in Samplers :
        ~(SamplerStep(s) /\ ps.samplers[s].state = "loop"))
    => \/ /\ ps'.active.mExitProfiles = ps.active.mExitProfiles
          /\ ps'.movedProfiles = ps.movedProfiles
       \/ /\ ps.activeExists /\ ~ps'.activeExists
          /\ \E t \in Threads : ExitStep(t, "stop_body")
          /\ ps'.active.mExitProfiles = <<>>
C31_StampsInRange ==
  \A i \in 1..Len(ps.active.mExitProfiles) :
    /\ ps.activeExists
    /\ ps.active.mExitProfiles[i].mBufferPositionAtGatherTime
         <= ps.buffer.rangeEnd
    /\ \A j \in 1..i :
         ps.active.mExitProfiles[j].mBufferPositionAtGatherTime
           <= ps.active.mExitProfiles[i].mBufferPositionAtGatherTime
C31_ExitProfilesKeptUntilExpiredOrMoved ==
  /\ [][C31_ReceivedStep /\ C31_MoveStep /\ C31_ClearStep
          /\ C31_OtherStep]_vars
  /\ []C31_StampsInRange
\* profiler_move_exit_profiles has handed out "{b}" alone, the buffer's range
\* start having passed position 0, and a profile received since is retained.
C31_Witness ==
  /\ ps.movedProfiles = <<"{b}">>
  /\ ps.buffer.rangeStart > 0
  /\ Len(ps.active.mExitProfiles) = 1
  /\ ps.active.mExitProfiles[1].mJSON = "{a}"
  /\ ps.active.mExitProfiles[1].mBufferPositionAtGatherTime
       >= ps.buffer.rangeStart

\* C32: profiler_unregister_page(id) removes every registered page with that
\* inner window id and leaves the other registered pages as they are; while
\* ActivePS exists the removed records are appended to the dead pages,
\* stamped with the buffer's rangeEnd, and the earlier dead pages stay; while
\* it does not exist nothing else changes.  A dead page leaves the list only
\* when DiscardExpiredPages finds its stamp < rangeStart, when
\* profiler_clear_all_pages runs, or when profiler_stop destroys ActivePS.
PageStep(t, body) ==
  aborted' = "no" /\ pc[t] = body /\ pc'[t] # body
StampedPages(pages, pos) ==
  [i \in 1..Len(pages) |->
     [pages[i] EXCEPT !.mBufferPositionWhenUnregistered = Some(pos)]]
UnexpiredPages(pages, rangeStart) ==
  SelectSeq(pages,
            LAMBDA d : d.mBufferPositionWhenUnregistered.v >= rangeStart)
C32_UnregisterStep ==
  \A t \in Threads :
    PageStep(t, "unregister_page_body") =>
      LET id == args[t].aRegisteredInnerWindowID
          live == WithoutInnerWindowID(ps.mRegisteredPages, id)
          dead == IF ps.activeExists
                  THEN ps.active.mDeadProfiledPages \o
                         StampedPages(WithInnerWindowID(ps.mRegisteredPages, id),
                                      ps.buffer.rangeEnd)
                  ELSE ps.active.mDeadProfiledPages
      IN  ps' = [ps EXCEPT !.mRegisteredPages = live,
                           !.active.mDeadProfiledPages = dead]
C32_DeadPageStep ==
  (aborted' = "no" /\ \A t \in Threads : ~PageStep(t, "unregister_page_body"))
    => \/ ps'.active.mDeadProfiledPages = ps.active.mDeadProfiledPages
       \/ /\ \E t \in Threads : PageStep(t, "register_page_body")
          /\ ps'.active.mDeadProfiledPages
               = UnexpiredPages(ps.active.mDeadProfiledPages,
                                ps.buffer.rangeStart)
       \/ /\ \E t \in Threads : PageStep(t, "clear_pages_body")
          /\ ps'.active.mDeadProfiledPages = <<>>
       \/ /\ \E t \in Threads : PageStep(t, "stop_body")
          /\ ps.activeExists /\ ~ps'.activeExists
          /\ ps'.active.mDeadProfiledPages = <<>>
C32_DeadPagesStamped ==
  /\ \A i \in 1..Len(ps.mRegisteredPages) :
       ps.mRegisteredPages[i].mBufferPositionWhenUnregistered = Nothing
  /\ \A i \in 1..Len(ps.active.mDeadProfiledPages) :
       LET d == ps.active.mDeadProfiledPages[i]
       IN  /\ ps.activeExists
           /\ d.mBufferPositionWhenUnregistered # Nothing
           /\ d.mBufferPositionWhenUnregistered.v <= ps.buffer.rangeEnd
C32_UnregisterPageMovesToDead ==
  /\ [][C32_UnregisterStep /\ C32_DeadPageStep]_vars
  /\ []C32_DeadPagesStamped
\* Page 1 was unregistered at position 0 and page 2 later, the buffer having
\* moved on; a page registered since is live.
C32_Witness ==
  /\ Len(ps.active.mDeadProfiledPages) = 2
  /\ ps.active.mDeadProfiledPages[1].id = 1
  /\ ps.active.mDeadProfiledPages[1].mBufferPositionWhenUnregistered = Some(0)
  /\ ps.active.mDeadProfiledPages[2].id = 2
  /\ ps.active.mDeadProfiledPages[2].mBufferPositionWhenUnregistered.v > 0
  /\ Len(ps.mRegisteredPages) = 1

\* C33: the core buffer never holds more than its capacity
\* (rangeEnd - rangeStart <= capacity, one position per block held), and the
\* sampler's local buffer never holds a block longer than its length; a step
\* that appends to the full core buffer advances rangeStart by exactly the
\* blocks that are overwritten, a step that discards old samples first may
\* advance it further, and no step moves rangeStart or rangeEnd back.
Max(a, b) == IF a >= b THEN a ELSE b
C33_Bounded ==
  /\ ps.buffer.rangeEnd - ps.buffer.rangeStart <= RingLen
  /\ Len(ps.buffer.entries) = ps.buffer.rangeEnd - ps.buffer.rangeStart
  /\ cs.scratch # <<>> => cs.bytes <= LocalBufferLength
C33_Step ==
  aborted' = "no" =>
    LET justEnough == Max(ps.buffer.rangeStart,
                          ps'.buffer.rangeEnd - RingLen)
    IN  /\ ps'.buffer.rangeEnd >= ps.buffer.rangeEnd
        /\ IF \E t \in Threads : pc[t] = "stream_body" /\ pc'[t] = "idle"
           THEN /\ ps'.buffer.rangeStart >= justEnough
                /\ ps'.buffer.rangeStart <= ps.buffer.rangeEnd
           ELSE ps'.buffer.rangeStart = justEnough
C33_RangeWithinCapacity == []C33_Bounded /\ [][C33_Step]_vars
\* The core buffer is full after blocks were overwritten, the last step
\* having copied the local buffer's sample into it.
C33_Witness ==
  /\ ps.buffer.rangeEnd - ps.buffer.rangeStart = RingLen
  /\ ps.buffer.rangeStart >= 3
  /\ ps.buffer.entries[RingLen].kind = "Frames"
  /\ ps.returned[Controller] = "true"

\* C34: in the ActivePS that profiler_start creates, and in the racy feature
\* word, Threads is on whenever the filter list is not empty, every requested
\* feature that the platform does not have is off, and with an empty filter
\* list the features are exactly the requested ones that are available.
RacyFeatureSet ==
  {f \in AllFeatures :
     RacyFeatures_IsActiveWithFeature(ps.sActiveAndFeatures, f)}
C34_AdjustedFeatures ==
  ps.activeExists =>
    LET req == ps.active.requested
    IN  /\ RacyFeatureSet = ps.active.mFeatures
        /\ req.filters # <<>> => "Threads" \in ps.active.mFeatures
        /\ \A f \in req.features \ AvailableFeatures :
             f \notin ps.active.mFeatures
        /\ req.filters = <<>>
             => ps.active.mFeatures = req.features \cap AvailableFeatures
        /\ ps.active.mFeatures \subseteq req.features \cup {"Threads"}
\* Started with JS alone, which the platform does not have, and a filter:
\* Threads is the only feature.
C34_Witness ==
  /\ ps.activeExists
  /\ ps.active.requested.features = {"JS"}
  /\ ps.active.requested.filters # <<>>
  /\ ps.active.mFeatures = {"Threads"}
  /\ RacyFeatureSet = {"Threads"}
  /\ lockOwner = NoThread

\* C35: all getFront calls for one type name on a RootFront resolve to the
\* same Front, and at most one Front is created per type name.
FrontsCreated(typeName) ==
  {k \in 1..Len(rf.created) : rf.created[k] = typeName}
C35_OneFrontPerTypeName ==
  /\ \A typeName \in TypeNames : Cardinality(FrontsCreated(typeName)) <= 1
  /\ \A a, b \in 1..Len(rf.calls) :
       (/\ rf.calls[a].typeName = rf.calls[b].typeName
        /\ rf.calls[a].at = "returned" /\ rf.calls[b].at = "returned")
         => rf.calls[a].front = rf.calls[b].front

\* C36: at every instant the Active bit of the racy word implies that
\* ActivePS exists and the Paused bit implies the Active bit; whenever
\* gPSMutex is free the Active bit says whether ActivePS exists and the
\* Paused bit is ActivePS's paused flag; and a start leaves the Paused bit
\* clear.
C36_NeverClaimsMore ==
  /\ "Active" \in ps.sActiveAndFeatures => ps.activeExists
  /\ "Paused" \in ps.sActiveAndFeatures => "Active" \in ps.sActiveAndFeatures
C36_AgreesWhenUnlocked ==
  lockOwner = NoThread =>
    /\ "Active" \in ps.sActiveAndFeatures <=> ps.activeExists
    /\ "Paused" \in ps.sActiveAndFeatures
         <=> (ps.activeExists /\ ps.active.mIsPaused)
C36_StartStep ==
  \A t \in Threads :
    (aborted' = "no" /\ pc[t] = "start_publish" /\ pc'[t] # "start_publish")
      => /\ ps'.sActiveAndFeatures = {"Active"} \cup ps'.active.mFeatures
         /\ "Paused" \notin ps'.sActiveAndFeatures
         /\ ~ps'.active.mIsPaused
C36_RacyWordWithinLockedState ==
  /\ []C36_NeverClaimsMore
  /\ []C36_AgreesWhenUnlocked
  /\ [][C36_StartStep]_vars
\* The profiler is being started a second time, after entries were written:
\* the second ActivePS exists, the word is still clear.
C36_Witness ==
  /\ pc[Controller] = "start_publish"
  /\ Len(ps.generations) = 2
  /\ ps.activeExists
  /\ ps.sActiveAndFeatures = {}
  /\ Len(ps.buffer.entries) = 0
  /\ ps.buffer.rangeEnd > 0

\* C37: neither release assertion of profiler_unregister_thread ever fails:
\* under the lock, the RegisteredThread found for the calling thread's id is
\* the one its thread-local pointer names, and both are null when the thread
\* is not registered.
UnregisterThreadAssertions ==
  {"profiler_unregister_thread: MOZ_RELEASE_ASSERT(registeredThread == TLSRegisteredThread::RegisteredThread(lock))",
   "profiler_unregister_thread: MOZ_RELEASE_ASSERT(!TLSRegisteredThread::RegisteredThread(lock))"}
C37_UnregisterAssertionsHold == aborted \notin UnregisterThreadAssertions

\* C38: every entry of ActivePS's live profiled-thread list names a
\* RegisteredThread that CorePS's registered-thread list owns, for the thread
\* the entry's ProfiledThreadData describes, and no RegisteredThread is named
\* by two entries; so every RegisteredThread the sampler thread reads in an
\* iteration exists.
C38_LiveEntry(l) ==
  \E i \in 1..Len(ps.mRegisteredThreads) :
     /\ ps.mRegisteredThreads[i].rid = l.mRegisteredThread
     /\ ps.mRegisteredThreads[i].isBeingProfiled
C38_LiveThreadsAreRegistered ==
  /\ \A l \in Range(ps.active.mLiveProfiledThreads) : C38_LiveEntry(l)
  /\ Cardinality(LiveRids) = Len(ps.active.mLiveProfiledThreads)
  /\ \A i, j \in 1..Len(ps.mRegisteredThreads) :
       ps.mRegisteredThreads[i].rid = ps.mRegisteredThreads[j].rid => i = j
  /\ ~ps.activeExists => ps.active.mLiveProfiledThreads = <<>>
\* The sampler thread is about to sample the live threads, under the lock,
\* after a profiled thread has unregistered and left the live list.
C38_Witness ==
  /\ \E s \in Samplers : /\ lockOwner = -s
                         /\ s <= Len(ps.samplers)
                         /\ ps.samplers[s].state = "sampling"
  /\ ps.activeExists
  /\ ps.active.mLiveProfiledThreads # <<>>
  /\ DeadRids # {}
  /\ DeadRids \cap RegisteredRids = {}

\* C39: MergeStacks terminates.  Every iteration of its loop moves the
\* profiling-stack index up by one or the native index down by one (both on
\* a tie) and neither ever moves back, so the loop never begins more
\* iterations than the two stacks have frames together, and none once both
\* indexes are at their ends; and whenever a frame that is not a JS_OSR frame
\* is examined, lastLabelFrameStackAddr is not null.
C39_Bounded ==
  /\ cs.merge.iterations <= Len(cs.merge.frames) + Len(cs.merge.mSPs)
  /\ cs.merge.iterations <=
       cs.merge.profilingStackIndex
         + (Len(cs.merge.mSPs) - 1 - cs.merge.nativeIndex)
  /\ cs.merge.profilingStackIndex <= Len(cs.merge.frames)
  /\ cs.merge.nativeIndex >= -1
  /\ cs.merge.iterations = Len(cs.merge.frames) + Len(cs.merge.mSPs)
       => MergeDone
C39_Step ==
  /\ cs'.merge.iterations = cs.merge.iterations + 1
  /\ \/ cs'.merge.profilingStackIndex = cs.merge.profilingStackIndex + 1
     \/ cs'.merge.nativeIndex = cs.merge.nativeIndex - 1
  /\ cs'.merge.profilingStackIndex
       \in {cs.merge.profilingStackIndex, cs.merge.profilingStackIndex + 1}
  /\ cs'.merge.nativeIndex \in {cs.merge.nativeIndex, cs.merge.nativeIndex - 1}
  /\ (/\ cs.merge.profilingStackIndex # Len(cs.merge.frames)
      /\ cs.merge.frames[cs.merge.profilingStackIndex + 1].kind # "JsOsr")
       => cs'.merge.lastLabelFrameStackAddr # NullPtr
C39_MergeStacksTerminates ==
  []C39_Bounded /\ [][C39_Step]_vars
\* The loop has ended after one iteration per frame of the fullest stacks.
C39_Witness ==
  /\ MergeDone
  /\ Len(cs.merge.frames) = MaxProfilingFrames
  /\ Len(cs.merge.mSPs) = MaxNativeFrames
  /\ cs.merge.iterations = MaxProfilingFrames + MaxNativeFrames
  /\ \E i \in 1..MaxProfilingFrames : cs.merge.frames[i].kind = "JsOsr"

\* C40: the byte length of ActivePS's buffer is 8 times ActivePS's capacity
\* in entries, for every capacity profiler_start accepts: the uint32_t
\* product `aCapacity.Value() * 8` is the product of the integers, and is at
\* least the 65536 bytes of the sampler's local buffer.  (8 v is 65536 times
\* v div 8192 plus 8 times v mod 8192, so the product fits 32 bits exactly
\* when its upper half-word is v div 8192.)
C40_ByteLengthIsEightTimesCapacity ==
  ps.activeExists =>
    LET mCapacity == ps.active.mCapacity
        perHalfWord == HalfWordMod \div BytesPerEntry
    IN  /\ CoreBufferLength(ps).hi = mCapacity \div perHalfWord
        /\ CoreBufferLength(ps).lo = (mCapacity % perHalfWord) * BytesPerEntry
        /\ ~WordLess(CoreBufferLength(ps), Word(LocalBufferLength))

====
